---- MODULE Spec2Model ----
(***************************************************************************)
(* Session / credential lifecycle, upstream error classification and the  *)
(* two cache-backed upload state machines of the SDS Manager MCP server    *)
(* (src/utils.py, src/main.py, src/tools.py).                              *)
(*                                                                         *)
(* Cache values are Python dicts: they are modelled as functions from the  *)
(* keys that are present to their values.  A key that is missing from the  *)
(* cache is the empty dict NoRec (redis_client.get returns None).          *)
(* Every tool / HTTP handler runs to completion on the event loop (the    *)
(* tools are async functions that never await), so one handler is one      *)
(* action; SpecRace serves calls step by step, one cache operation or      *)
(* backend request at a time, as server processes on one cache do.  The    *)
(* variable last records what the handler that ran last was given, what    *)
(* it found, what it answered, which backend requests it sent and which    *)
(* cache keys it wrote.                                                    *)
(***************************************************************************)
EXTENDS Integers, Sequences, FiniteSets, TLC

\* ------------------------------------------------------------------ bounds
MaxSessions == 1      \* session handles get_login_url may mint
MaxPdf      == 1      \* request ids the PDF flow may allocate
MaxPl       == 1      \* request ids the product-list flow may allocate
MaxFiles    == 2      \* spreadsheets the upload form may receive
MaxClock    == 6      \* ticks the clock of the cache runs for
TtlTicks    == 2      \* REDIS_TTL (config.py), in ticks
MaxTasks    == 2      \* calls that are served at the same time

\* ------------------------------------------------------------- dict helpers
Null  == "null"                       \* Python None / missing key
NoRec == [k \in {} |-> Null]          \* redis_client.get(key) of an absent key

Has(d, k)      == k \in DOMAIN d
Get(d, k)      == IF k \in DOMAIN d THEN d[k] ELSE Null
Put(d, k, v)   == [x \in (DOMAIN d) \cup {k} |-> IF x = k THEN v ELSE d[x]]
Merge(d, e)    == [x \in (DOMAIN d) \cup (DOMAIN e) |-> IF x \in DOMAIN e THEN e[x] ELSE d[x]]
\* Python truthiness of d.get(k) for a string value / a boolean value / an int
TruthyS(d, k)  == k \in DOMAIN d /\ d[k] # Null /\ d[k] # ""
TruthyB(d, k)  == k \in DOMAIN d /\ d[k] = TRUE
TruthyNPresent(d, k) == k \in DOMAIN d
TruthyN(d, k)  == k \in DOMAIN d /\ d[k] # 0
Present(d)     == DOMAIN d # {}

\* --------------------------------------------------------------- the handles
Handles    == 1..MaxSessions           \* the handles get_login_url can mint
Stranger   == MaxSessions + 1          \* a handle string that was never minted
AnyHandle  == 1..(MaxSessions + 1)
PdfIds     == 1..MaxPdf
PlIds      == 1..MaxPl
Credentials == {"k1", "k2"}            \* api keys typed into the login form

\* ------------------------------------------------------------- the backend
\* Bodies of non-200 responses: the raw text and what response.json() gives.
ErrorBodies ==
  { [text |-> "<html>502</html>", json |-> FALSE, doc |-> NoRec],
    [text |-> "{}", json |-> TRUE, doc |-> NoRec],
    [text |-> "{msg:m4}", json |-> TRUE, doc |-> [error_message |-> "m4"]],
    [text |-> "{code:NOT_EXISTED_API_KEY,msg:m1}", json |-> TRUE,
       doc |-> [error_code |-> "NOT_EXISTED_API_KEY", error_message |-> "m1"]],
    [text |-> "{code:NOT_EXISTED_API_KEY}", json |-> TRUE,
       doc |-> [error_code |-> "NOT_EXISTED_API_KEY"]],
    [text |-> "{code:API_KEY_NOT_ACTIVE,msg:m2}", json |-> TRUE,
       doc |-> [error_code |-> "API_KEY_NOT_ACTIVE", error_message |-> "m2"]],
    [text |-> "{code:OTHER,msg:m3}", json |-> TRUE,
       doc |-> [error_code |-> "OTHER", error_message |-> "m3"]] }

ErrorStatusCodes == {400, 500}

ErrorResponses ==
  { [status_code |-> c, text |-> b.text, json |-> b.json, doc |-> b.doc] :
      c \in ErrorStatusCodes, b \in ErrorBodies }

\* GET /user/ answers 200 with the profile of the key's owner, or rejects the key.
ProfileOf(api_key) ==
  IF api_key = "k1"
    THEN [id |-> "u1", email |-> "a@x", first_name |-> "Ann", last_name |-> "Lee",
          language |-> "en", country |-> "US", phone_number |-> "555", customer |-> "c1"]
    ELSE [id |-> "u2", email |-> "b@x", language |-> "no", country |-> "NO",
          phone_number |-> Null, customer |-> "c2"]

IdentityErrors ==
  { e \in ErrorResponses :
      ~e.json \/ (TruthyS(e.doc, "error_message") /\
                  Get(e.doc, "error_code") \in {"NOT_EXISTED_API_KEY", "API_KEY_NOT_ACTIVE"}) }

IdentityResponses(api_key) ==
  { [status_code |-> 200, text |-> "profile", json |-> TRUE, doc |-> ProfileOf(api_key)] }
  \cup IdentityErrors

\* requests.* raising a RequestException (timeout, DNS, refused connection)
TransportError == [status_code |-> 0, text |-> "timeout", json |-> FALSE, doc |-> NoRec]

VARIABLES
  sess,        \* sds_mcp:{handle}                      -> session record
  pdf,         \* upload_sds_pdf:{handle}:{request_id}  -> PDF upload record
  pl,          \* upload_product_list:{handle}:{request_id} -> product-list record
  nextHandle,  \* handles minted so far + 1 (uuid4 never repeats)
  nextPdf,     \* PDF request ids allocated so far + 1
  nextPl,      \* product-list request ids allocated so far + 1
  disk,        \* the temp files of the product-list uploads: path -> content
  nextFile,    \* temp files created so far + 1 (tempfile names never repeat)
  last,        \* the handler that ran last: input, what it read, what it did
  clock,       \* the time, and per session key its expiry time and login time
  plHistory,   \* history: per product-list request id, what has happened to
               \* its record since it was created or last reset
  task         \* the calls being served step by step: position, what each has
               \* read from the cache and got from the backend

vars == <<sess, pdf, pl, nextHandle, nextPdf, nextPl, disk, nextFile, last, clock, plHistory, task>>

\* A request id is a fresh uuid4, so one upload key exists per request id: the
\* record of key (h, r) is the record of r when it was created for handle h.
PdfRec(h, r) == IF r \in PdfIds /\ Present(pdf[r]) /\ pdf[r]["session_id"] = h
                THEN pdf[r] ELSE NoRec
PlRec(h, r)  == IF r \in PlIds /\ Present(pl[r]) /\ pl[r]["session_id"] = h
                THEN pl[r] ELSE NoRec

\* What a handler leaves in last: its name, the handle and request id it was
\* called with, its other argument, the upload record it found, its response,
\* the backend requests it sent, the upstream response it got and the cache
\* keys it wrote, in order.  before is what the handler that ran just before
\* it left, kept only where a claim speaks of two calls in a row; trail is the
\* statuses written to the upload record, in order, with "request" where the
\* backend request was sent; sent is the upload record in the cache when it
\* was sent.
Ran(op, h, r, arg, pre, resp, calls, got, writes) ==
  [op |-> op, h |-> h, r |-> r, arg |-> arg, pre |-> pre, resp |-> resp,
   calls |-> calls, got |-> got, writes |-> writes, before |-> NoRec, trail |-> <<>>,
   sent |-> NoRec]

\* The call just before this one, when it was op with the same handle and
\* request id.
Before(op, h, r) ==
  IF last.op = op /\ last.h = h /\ last.r = r
    THEN [resp |-> last.resp, got |-> last.got, calls |-> last.calls]
    ELSE NoRec

NoCalls == <<>>
NoWrites == <<>>

\* One backend request: the endpoint and the credential header it carried.
Call(ep, info) == [ep |-> ep, api_key |-> Get(info, "api_key")]

\* An exception nothing catches leaves the handler (the framework reports it).
Unhandled == [status |-> "exception", code |-> "UNHANDLED"]

\* The calls served at the same time, and a call slot nothing runs in.  pc is
\* the position of the call, info and upload_info what it read from the
\* cache, got the backend's answer, code the code (or message) it returned;
\* split says that a step of another call fell between two of its steps.
Tasks == 1..MaxTasks
Idle == [op |-> "none", pc |-> "idle", h |-> 0, r |-> 0, arg |-> Null, info |-> NoRec,
         upload_info |-> NoRec, got |-> NoRec, code |-> Null, split |-> FALSE]

\* -------------------------------------------------------------- src/utils.py
\* validate_session: the session record or the error response, and the flag.
validate_session_accepting_pending(h) ==
  LET info == sess[h] IN
  IF ~Present(info) THEN
    [info |-> [status |-> "error", code |-> "SESSION_EXPIRED",
               instruction |-> "get_login_url", trace_id |-> h],
     expired |-> TRUE, writes |-> <<>>]
  ELSE
    [info |-> info, expired |-> FALSE, writes |-> <<"sds_mcp">>]

validate_session(h) ==
  LET info == sess[h] IN
  IF ~Present(info) THEN
    [info |-> [status |-> "error", code |-> "SESSION_EXPIRED",
               instruction |-> "get_login_url", trace_id |-> h],
     expired |-> TRUE, writes |-> <<>>]
  ELSE IF ~TruthyB(info, "logged_in") THEN
    [info |-> [status |-> "error", code |-> "AUTHENTICATION_ERROR",
               data |-> [error_message |-> Get(info, "error_message")],
               instruction |-> "login again", trace_id |-> h],
     expired |-> TRUE, writes |-> <<>>]
  ELSE
    [info |-> info, expired |-> FALSE, writes |-> <<"sds_mcp">>]

api_error_response_as_server_error(h, status_code, error_message) ==
  [status |-> "error", code |-> "SERVER_ERROR",
   data |-> [status_code |-> status_code, error_message |-> error_message],
   instruction |-> "contact admin", trace_id |-> h]

api_error_response(h, status_code, error_message) ==
  [status |-> "error", code |-> "API_ERROR",
   data |-> [status_code |-> status_code, error_message |-> error_message],
   instruction |-> "verify input", trace_id |-> h]

server_error_response(h, status_code, error_message) ==
  [status |-> "error", code |-> "SERVER_ERROR",
   data |-> [status_code |-> status_code, error_message |-> error_message],
   instruction |-> "contact admin", trace_id |-> h]

connection_error_response(h, error_message) ==
  [status |-> "error", code |-> "CONNECTION_ERROR",
   data |-> [error_message |-> error_message],
   instruction |-> "retry", trace_id |-> h]

AuthorizationCodes ==
  {"AUTHENTICATION_AUTH_IS_NOT_ACTIVE_BAD_REQUEST", "API_KEY_NOT_ACTIVE",
   "SUBSCRIPTION_ACCESS_MCP_CHAT_AGENT_NOT_PERMISSION",
   "CUSTOMER_SUBSCRIPTION_DOES_NOT_EXIST"}

\* The error codes handle_api_error takes for an invalid credential.
CredentialCodesWithNotActive == {"NOT_EXISTED_API_KEY", "API_KEY_NOT_ACTIVE"}

CredentialCodes == {"NOT_EXISTED_API_KEY"}

\* The record handle_api_error writes when upstream says the key does not exist.
InvalidatedRecordKeepingKey(info, error_msg) ==
  Merge(info, [logged_in |-> FALSE, login_error |-> TRUE, error_message |-> error_msg])

InvalidatedRecord(info, error_msg) ==
  [logged_in |-> FALSE, login_error |-> TRUE, error_message |-> error_msg]

\* handle_api_error on a response whose body parsed as JSON: the response
\* returned and the session record of h afterwards.
handle_api_error_deleting(response, h) ==
  [resp |-> [status |-> "error", code |-> "API_KEY_INVALID",
             data |-> [status_code |-> response.status_code,
                       error_code |-> Get(response.doc, "error_code"),
                       error_message |-> Get(response.doc, "error_message")],
             instruction |-> "login again", trace_id |-> h],
   rec |-> NoRec, writes |-> <<"sds_mcp">>]

handle_api_error(response, h) ==
  LET error_msg  == Get(response.doc, "error_message")
      error_code == Get(response.doc, "error_code")
      info       == sess[h]
      classified(code) ==
        [status |-> "error", code |-> code,
         data |-> [status_code |-> response.status_code,
                   error_code |-> error_code, error_message |-> error_msg],
         instruction |-> IF code = "API_KEY_INVALID" THEN "login again" ELSE "contact admin",
         trace_id |-> h]
  IN
  IF ~TruthyS(response.doc, "error_message") \/ ~TruthyS(response.doc, "error_code") THEN
    [resp |-> api_error_response(h, response.status_code, response.text),
     rec |-> info, writes |-> <<>>]
  ELSE IF error_code \in CredentialCodes THEN
    [resp |-> classified("API_KEY_INVALID"),
     rec |-> IF Present(info) THEN InvalidatedRecord(info, error_msg) ELSE info,
     writes |-> IF Present(info) THEN <<"sds_mcp">> ELSE <<>>]
  ELSE IF error_code \in AuthorizationCodes THEN
    [resp |-> classified("AUTHORIZATION_ERROR"), rec |-> info, writes |-> <<>>]
  ELSE
    [resp |-> api_error_response(h, response.status_code, error_msg),
     rec |-> info, writes |-> <<>>]

\* The tools' non-200 branch: handle_api_error, and server_error_response when
\* it raises (response.json() of a body that is not JSON).
ToolApiError(response, h) ==
  IF ~response.json THEN
    [resp |-> server_error_response(h, response.status_code, response.text),
     rec |-> sess[h], writes |-> <<>>]
  ELSE handle_api_error(response, h)

\* reset_upload_session: the record written.
reset_upload_session(h, request_id, location_id) ==
  LET session_info == [session_id |-> h, request_id |-> request_id, status |-> "inited"] IN
  IF location_id # Null /\ location_id # ""
    THEN Put(session_info, "location_id", location_id)
    ELSE session_info

\* ------------------------------------------------------- session operations
\* tools.py get_login_url.  A call without a handle takes the same path as a
\* call with a handle that has no record: both mint a new handle.
LoginUrl(h) == <<"login", h>>

\* tools.py get_login_url, the data returned for a handle that has a record.
ReusedDataWithLoginUrl(given, info) ==
  [session_handle |-> given, login_url |-> LoginUrl(given)]

ReusedData(given, info) ==
  IF TruthyB(info, "logged_in")
    THEN [session_handle |-> given]
    ELSE [session_handle |-> given, login_url |-> LoginUrl(given)]

get_login_url(given) ==
  LET info == sess[given] IN
  IF Present(info) THEN
    /\ last' = Ran("get_login_url", given, 0, Null, NoRec,
                   [status |-> "success", code |-> "SESSION_REUSED",
                    data |-> ReusedData(given, info),
                    instruction |-> "login", trace_id |-> given],
                   NoCalls, NoRec, NoWrites)
    /\ UNCHANGED <<clock, task, plHistory, sess, pdf, pl, nextHandle, nextPdf, nextPl, disk, nextFile>>
  ELSE
    /\ nextHandle <= MaxSessions
    /\ LET new_session_handle == nextHandle IN
       /\ sess' = [sess EXCEPT ![new_session_handle] =
                     [logged_in |-> FALSE, login_error |-> FALSE]]
       /\ nextHandle' = nextHandle + 1
       /\ last' = Ran("get_login_url", given, 0, Null, NoRec,
                      [status |-> "success", code |-> "SESSION_CREATED",
                       data |-> [session_handle |-> new_session_handle,
                                 login_url |-> LoginUrl(new_session_handle)],
                       instruction |-> "login", trace_id |-> new_session_handle],
                      NoCalls, NoRec, <<"sds_mcp">>)
    /\ UNCHANGED <<clock, task, plHistory, pdf, pl, nextPdf, nextPl, disk, nextFile>>

\* main.py login, the record written on a 200 from the identity endpoint.
LoggedInRecord(api_key, result) ==
  [logged_in |-> TRUE, api_key |-> api_key,
   user_id |-> Get(result, "id"),
   email |-> Get(result, "email"),
   first_name |-> IF Has(result, "first_name") THEN result["first_name"] ELSE "",
   last_name |-> IF Has(result, "last_name") THEN result["last_name"] ELSE "",
   language |-> Get(result, "language"),
   country |-> Get(result, "country"),
   phone_number |-> Get(result, "phone_number"),
   customer |-> Get(result, "customer")]

\* main.py login, the record written on any other status code.
LoginErrorRecord(response) ==
  [logged_in |-> FALSE, login_error |-> TRUE, error_message |-> response.text]

\* main.py login (POST /login): any session_id, any api_key.
login(session_id, api_key) ==
  LET call == <<[ep |-> "user", api_key |-> api_key]>> IN
  \E response \in IdentityResponses(api_key) \cup {TransportError} :
  IF response = TransportError THEN
    /\ last' = Ran("login", session_id, 0, api_key, NoRec,
                   [status |-> "error", message |-> "Login error"],
                   call, response, NoWrites)
    /\ UNCHANGED <<clock, task, plHistory, sess, pdf, pl, nextHandle, nextPdf, nextPl, disk, nextFile>>
  ELSE IF response.status_code = 200 THEN
    /\ sess' = [sess EXCEPT ![session_id] = LoggedInRecord(api_key, response.doc)]
    /\ last' = Ran("login", session_id, 0, api_key, NoRec,
                   [status |-> "success", message |-> "Login successfully!"],
                   call, response, <<"sds_mcp">>)
    /\ UNCHANGED <<clock, task, plHistory, pdf, pl, nextHandle, nextPdf, nextPl, disk, nextFile>>
  ELSE
    /\ sess' = [sess EXCEPT ![session_id] = LoginErrorRecord(response)]
    /\ last' = Ran("login", session_id, 0, api_key, NoRec,
                   IF ~response.json
                     THEN [status |-> "error", message |-> "Login error"]
                     ELSE [status |-> "error", error_code |-> 400,
                           message |-> IF TruthyS(response.doc, "error_message")
                                       THEN response.doc["error_message"]
                                       ELSE response.text],
                   call, response, <<"sds_mcp">>)
    /\ UNCHANGED <<clock, task, plHistory, pdf, pl, nextHandle, nextPdf, nextPl, disk, nextFile>>

\* tools.py check_auth_status.
check_auth_status(h) ==
  LET v == validate_session(h)
      info == v.info IN
  /\ last' = [Ran("check_auth_status", h, 0, Null, NoRec,
                 IF v.expired THEN info
                 ELSE [status |-> "success", code |-> "OK",
                       data |-> [session_handle |-> h,
                                 user |-> [id |-> Get(info, "id"),
                                           email |-> Get(info, "email"),
                                           name |-> <<Get(info, "first_name"), " ",
                                                      Get(info, "last_name")>>,
                                           language |-> Get(info, "language"),
                                           country |-> Get(info, "country"),
                                           phone_number |-> Get(info, "phone_number"),
                                           customer |-> Get(info, "customer")]],
                       instruction |-> "welcome", trace_id |-> h],
                 NoCalls, NoRec, v.writes) EXCEPT !.before = Before("login", h, 0)]
  /\ UNCHANGED <<clock, task, plHistory, sess, pdf, pl, nextHandle, nextPdf, nextPl, disk, nextFile>>

\* tools.py get_limits: the shape every plain tool has (validate the session,
\* one backend request, classify a failure).
LimitsResponses ==
  { [status_code |-> 200, text |-> "limits", json |-> TRUE, doc |-> [valid |-> v]] :
      v \in BOOLEAN } \cup ErrorResponses

get_limits(h) ==
  LET v == validate_session(h)
      info == v.info
      call == <<Call("user/limits", info)>> IN
  IF v.expired THEN
    /\ last' = Ran("get_limits", h, 0, Null, NoRec, info, NoCalls, NoRec, NoWrites)
    /\ UNCHANGED <<clock, task, plHistory, sess, pdf, pl, nextHandle, nextPdf, nextPl, disk, nextFile>>
  ELSE \E response \in LimitsResponses \cup {TransportError} :
  IF response = TransportError THEN
    /\ last' = Ran("get_limits", h, 0, Null, NoRec,
                   connection_error_response(h, response.text), call, response, v.writes)
    /\ UNCHANGED <<clock, task, plHistory, sess, pdf, pl, nextHandle, nextPdf, nextPl, disk, nextFile>>
  ELSE IF response.status_code = 200 THEN
    /\ last' = Ran("get_limits", h, 0, Null, NoRec,
                   IF response.doc["valid"]
                     THEN [status |-> "success", code |-> "OK",
                           data |-> [session_handle |-> h],
                           instruction |-> "show limits", trace_id |-> h]
                     ELSE Unhandled,
                   call, response, v.writes)
    /\ UNCHANGED <<clock, task, plHistory, sess, pdf, pl, nextHandle, nextPdf, nextPl, disk, nextFile>>
  ELSE
    LET e == ToolApiError(response, h) IN
    /\ sess' = [sess EXCEPT ![h] = e.rec]
    /\ last' = Ran("get_limits", h, 0, Null, NoRec, e.resp, call, response,
                   v.writes \o e.writes)
    /\ UNCHANGED <<clock, task, plHistory, pdf, pl, nextHandle, nextPdf, nextPl, disk, nextFile>>

\* The cache drops a key when its TTL lapses (cache.py set: ex=REDIS_TTL).
\* tools.py get_setup_onboarding_step: the step ids of the checklist and one
\* that is not on it.
StepIds == {"location_setup", "sds_file_setup", "products_management",
            "sds_manager_expert_setup", "unknown_step"}

\* The steps whose response carries a trace_id.
TracedSteps == {"location_setup", "sds_file_setup"}

get_setup_onboarding_step(h, step_id) ==
  LET v == validate_session(h)
      guide == [status |-> "success", code |-> "OK", instruction |-> <<"guide", step_id>>]
  IN
  /\ last' = Ran("get_setup_onboarding_step", h, 0, step_id, NoRec,
                 IF v.expired THEN v.info
                 ELSE IF step_id \in StepIds \ {"unknown_step"} THEN
                   IF step_id \in TracedSteps THEN Put(guide, "trace_id", h) ELSE guide
                 ELSE [status |-> "error", code |-> "STEP_NOT_FOUND",
                       instruction |-> "get_setup_onboarding_flow", trace_id |-> h],
                 NoCalls, NoRec, v.writes)
  /\ UNCHANGED <<clock, task, plHistory, sess, pdf, pl, nextHandle, nextPdf, nextPl, disk, nextFile>>

ExpireSession(h) ==
  /\ Present(sess[h])
  /\ sess' = [sess EXCEPT ![h] = NoRec]
  /\ last' = Ran("expire", h, 0, Null, NoRec, NoRec, NoCalls, NoRec, NoWrites)
  /\ UNCHANGED <<clock, task, plHistory, pdf, pl, nextHandle, nextPdf, nextPl, disk, nextFile>>

\* ------------------------------------------------------------ PDF upload flow
Locations   == {"", "L1"}              \* location_id arguments of the tools
Departments == {"L1", "L2"}            \* department_id fields of the upload form

\* The upload URL handed to the caller (tools.py 1948, 2156).
UploadUrl(h, location_id, request_id) == <<"upload", h, location_id, request_id>>

\* Bodies of 200 responses of getExtractionStatus / uploadSDSFromUrl: progress
\* is whatever integer the backend sends (below, at and above 100); the last
\* body lacks required fields.
ExtractionDocs ==
  { [email |-> "e", request_id |-> "x", step |-> "EXTRACT", progress |-> 40,
     init_time |-> "t", booklet_info |-> "b", junk |-> "j"],
    [email |-> "e", request_id |-> "x", step |-> "DONE", progress |-> 100,
     init_time |-> "t", booklet_info |-> "b", junk |-> "j"],
    [email |-> "e", request_id |-> "x", step |-> "DONE", progress |-> 101,
     init_time |-> "t", booklet_info |-> "b", junk |-> "j"],
    [request_id |-> "x", progress |-> 100] }

\* The failures the upload endpoints answer with here: a body that is not JSON
\* and the key-does-not-exist code, with and without a message.
UploadErrors ==
  { e \in ErrorResponses : ~e.json \/ Get(e.doc, "error_code") = "NOT_EXISTED_API_KEY" }

ExtractionResponses ==
  { [status_code |-> 200, text |-> "status", json |-> TRUE, doc |-> d] : d \in ExtractionDocs }
  \cup UploadErrors

\* models.py GetExtractionStatusApiResponse(**doc): the required fields.
ValidExtraction(doc) ==
  {"email", "request_id", "step", "progress", "init_time"} \subseteq DOMAIN doc

\* models.py model_dump(by_alias=True): extra keys are dropped, booklet_info is
\* renamed to imported_info, a missing optional field gets its default.
model_dump(doc) ==
  [email |-> doc["email"], request_id |-> doc["request_id"], step |-> doc["step"],
   progress |-> doc["progress"], init_time |-> doc["init_time"],
   imported_info |-> IF Has(doc, "booklet_info") THEN doc["booklet_info"] ELSE "{}"]

\* tools.py add_sds_by_uploading_sds_pdf_file
add_sds_by_uploading_sds_pdf_file(h, location_id) ==
  LET v == validate_session(h) IN
  IF v.expired THEN
    /\ last' = Ran("add_sds_by_uploading_sds_pdf_file", h, 0, location_id, NoRec,
                   v.info, NoCalls, NoRec, NoWrites)
    /\ UNCHANGED <<clock, task, plHistory, sess, pdf, pl, nextHandle, nextPdf, nextPl, disk, nextFile>>
  ELSE
    /\ nextPdf <= MaxPdf
    /\ LET request_id == nextPdf IN
       /\ pdf' = [pdf EXCEPT ![request_id] =
                    [session_id |-> h, request_id |-> request_id,
                     location_id |-> location_id, status |-> "inited"]]
       /\ nextPdf' = nextPdf + 1
       /\ last' = Ran("add_sds_by_uploading_sds_pdf_file", h, request_id, location_id, NoRec,
                      [status |-> "success", code |-> "OK",
                       data |-> [session_handle |-> h, request_id |-> request_id,
                                 upload_url |-> UploadUrl(h, location_id, request_id)],
                       instruction |-> "upload steps", trace_id |-> h],
                      NoCalls, NoRec, v.writes \o <<"upload_sds_pdf">>)
    /\ UNCHANGED <<clock, task, plHistory, sess, pl, nextHandle, nextPl, disk, nextFile>>

\* tools.py add_sds_by_url, the record written when the backend answers 200.
UrlUploadedRecordWithoutData(h, request_id, location_id, result) ==
  [session_id |-> h, request_id |-> request_id,
   location_id |-> location_id, status |-> "uploaded"]

UrlUploadedRecord(h, request_id, location_id, result) ==
  [session_id |-> h, request_id |-> request_id,
   location_id |-> location_id, status |-> "uploaded", data |-> result]

\* tools.py add_sds_by_url
add_sds_by_url(h, location_id) ==
  LET v == validate_session(h)
      info == v.info IN
  IF v.expired THEN
    /\ last' = Ran("add_sds_by_url", h, 0, location_id, NoRec,
                   info, NoCalls, NoRec, NoWrites)
    /\ UNCHANGED <<clock, task, plHistory, sess, pdf, pl, nextHandle, nextPdf, nextPl, disk, nextFile>>
  ELSE
    /\ nextPdf <= MaxPdf
    /\ LET request_id == nextPdf
           call == <<Call("uploadSDSFromUrl", info)>>
           inited == [session_id |-> h, request_id |-> request_id,
                      location_id |-> location_id, status |-> "inited"]
       IN
       /\ nextPdf' = nextPdf + 1
       /\ \E response \in ExtractionResponses \cup {TransportError} :
          IF response = TransportError THEN
            /\ pdf' = [pdf EXCEPT ![request_id] = inited]
            /\ sess' = sess
            /\ last' = Ran("add_sds_by_url", h, request_id, location_id, NoRec,
                           connection_error_response(h, response.text),
                           call, response, v.writes \o <<"upload_sds_pdf">>)
          ELSE IF response.status_code = 200 THEN
            /\ pdf' = [pdf EXCEPT ![request_id] =
                         UrlUploadedRecord(h, request_id, location_id, response.doc)]
            /\ sess' = sess
            /\ last' = Ran("add_sds_by_url", h, request_id, location_id, NoRec,
                           IF ValidExtraction(response.doc)
                             THEN [status |-> "success", code |-> "OK",
                                   data |-> Merge([session_handle |-> h,
                                                   request_id |-> request_id,
                                                   progress |-> response.doc["progress"]],
                                                  model_dump(response.doc)),
                                   instruction |-> "check status", trace_id |-> h]
                             ELSE Unhandled,
                           call, response,
                           v.writes \o <<"upload_sds_pdf", "upload_sds_pdf">>)
          ELSE
            LET e == ToolApiError(response, h) IN
            /\ pdf' = [pdf EXCEPT ![request_id] = inited]
            /\ sess' = [sess EXCEPT ![h] = e.rec]
            /\ last' = Ran("add_sds_by_url", h, request_id, location_id, NoRec, e.resp,
                           call, response, v.writes \o <<"upload_sds_pdf">> \o e.writes)
    /\ UNCHANGED <<clock, task, plHistory, pl, nextHandle, nextPl, disk, nextFile>>

\* Bodies of 200 responses of uploadSDS (the form's file transfer).
UploadResponses ==
  { [status_code |-> 200, text |-> "queued", json |-> TRUE,
     doc |-> [request_id |-> "x", step |-> "QUEUED", progress |-> 0]] }
  \cup { e \in UploadErrors : ~e.json \/ TruthyS(e.doc, "error_message") }

\* main.py upload_file (POST /upload): any session_id, request_id and
\* department_id; is_pdf says whether the file name ends in .pdf.
upload_file(session_id, request_id, department_id, is_pdf) ==
  LET info == sess[session_id]
      upload_info == PdfRec(session_id, request_id)
      call == <<Call("uploadSDS", info)>>
      file == IF is_pdf THEN "a.pdf" ELSE "a.txt"
      ran(resp, calls, got, writes) ==
        Ran("upload_file", session_id, request_id, department_id, upload_info,
            resp, calls, got, writes)
  IN
  IF ~Present(info) THEN
    /\ last' = ran([status |-> "error", message |-> "Session expired"],
                   NoCalls, NoRec, NoWrites)
    /\ UNCHANGED <<clock, task, plHistory, sess, pdf, pl, nextHandle, nextPdf, nextPl, disk, nextFile>>
  ELSE IF ~Present(upload_info) THEN
    /\ last' = ran([status |-> "error", message |-> "Upload session expired"],
                   NoCalls, NoRec, NoWrites)
    /\ UNCHANGED <<clock, task, plHistory, sess, pdf, pl, nextHandle, nextPdf, nextPl, disk, nextFile>>
  ELSE IF ~is_pdf THEN
    /\ last' = ran([status |-> "error", message |-> "Only PDF files are allowed."],
                   NoCalls, NoRec, NoWrites)
    /\ UNCHANGED <<clock, task, plHistory, sess, pdf, pl, nextHandle, nextPdf, nextPl, disk, nextFile>>
  ELSE \E response \in UploadResponses \cup {TransportError} :
  IF response = TransportError THEN
    /\ last' = ran([status |-> "error", message |-> "Upload error"],
                   call, response, NoWrites)
    /\ UNCHANGED <<clock, task, plHistory, sess, pdf, pl, nextHandle, nextPdf, nextPl, disk, nextFile>>
  ELSE IF response.status_code = 200 THEN
    /\ pdf' = [pdf EXCEPT ![request_id] =
                 [session_id |-> session_id, request_id |-> request_id,
                  location_id |-> department_id, status |-> "uploaded",
                  file |-> file, data |-> response.doc]]
    /\ last' = ran([status |-> "success", message |-> "Successfully uploaded",
                    data |-> response.doc],
                   call, response, <<"upload_sds_pdf">>)
    /\ UNCHANGED <<clock, task, plHistory, sess, pl, nextHandle, nextPdf, nextPl, disk, nextFile>>
  ELSE
    /\ pdf' = [pdf EXCEPT ![request_id] =
                 [session_id |-> session_id, request_id |-> request_id,
                  location_id |-> department_id, status |-> "error",
                  status_code |-> response.status_code,
                  error_message |-> response.text, file |-> file]]
    /\ last' = ran([status |-> "error", message |-> "Upload failed",
                    details |-> response.text],
                   call, response, <<"upload_sds_pdf">>)
    /\ UNCHANGED <<clock, task, plHistory, sess, pl, nextHandle, nextPdf, nextPl, disk, nextFile>>

\* tools.py check_upload_sds_pdf_status, the status written after a 200.
PolledStatusNeverFinished(progress) == "extracting"

PolledStatus(progress) == IF progress < 100 THEN "extracting" ELSE "finished"

\* tools.py check_upload_sds_pdf_status, the statuses that are polled upstream.
PolledStatusesWithError == {"uploaded", "extracting", "error"}

PolledStatuses == {"uploaded", "extracting"}

\* tools.py check_upload_sds_pdf_status, the test for a finished record.
IsFinishedMisspelt(upload_info) == Get(upload_info, "status") = "finish"

IsFinished(upload_info) == Get(upload_info, "status") = "finished"

\* tools.py check_upload_sds_pdf_status, the response for a finished record.
FinishedResponseWithoutData(h, request_id, upload_info) ==
  [status |-> "success", code |-> "UPLOAD_FINISHED",
   data |-> [session_handle |-> h, request_id |-> request_id,
             progress |-> Get(upload_info, "progress")],
   instruction |-> "upload finished", trace_id |-> h]

FinishedResponse(h, request_id, upload_info) ==
  [status |-> "success", code |-> "UPLOAD_FINISHED",
   data |-> Merge([session_handle |-> h, request_id |-> request_id,
                   progress |-> Get(upload_info, "progress")],
                  IF Has(upload_info, "data") THEN upload_info["data"] ELSE NoRec),
   instruction |-> "upload finished", trace_id |-> h]

\* tools.py check_upload_sds_pdf_status, the response when no record is found.
UploadSessionExpiredAsUploadError(h) ==
  [status |-> "error", code |-> "UPLOAD_ERROR",
   instruction |-> "upload steps", trace_id |-> h]

UploadSessionExpired(h) ==
  [status |-> "error", code |-> "UPLOAD_SESSION_EXPIRED",
   instruction |-> "restart upload", trace_id |-> h]

\* tools.py check_upload_sds_pdf_status
check_upload_sds_pdf_status(h, request_id) ==
  LET v == validate_session(h)
      info == v.info
      upload_info == PdfRec(h, request_id)
      location_id == Get(upload_info, "location_id")
      call == <<Call("getExtractionStatus", info)>>
      ran(pre, resp, calls, got, writes) ==
        [Ran("check_upload_sds_pdf_status", h, request_id, Null, pre, resp, calls, got, writes)
           EXCEPT !.before = Before("check_upload_sds_pdf_status", h, request_id)]
  IN
  IF v.expired THEN
    /\ last' = ran(NoRec, info, NoCalls, NoRec, NoWrites)
    /\ UNCHANGED <<clock, task, plHistory, sess, pdf, pl, nextHandle, nextPdf, nextPl, disk, nextFile>>
  ELSE IF ~Present(upload_info) THEN
    /\ last' = ran(upload_info, UploadSessionExpired(h), NoCalls, NoRec, v.writes)
    /\ UNCHANGED <<clock, task, plHistory, sess, pdf, pl, nextHandle, nextPdf, nextPl, disk, nextFile>>
  ELSE IF IsFinished(upload_info) THEN
    /\ last' = ran(upload_info, FinishedResponse(h, request_id, upload_info),
                   NoCalls, NoRec, v.writes)
    /\ UNCHANGED <<clock, task, plHistory, sess, pdf, pl, nextHandle, nextPdf, nextPl, disk, nextFile>>
  ELSE IF Get(upload_info, "status") \notin PolledStatuses THEN
    IF ~TruthyS(upload_info, "location_id") THEN
      /\ last' = ran(upload_info,
                     [status |-> "error", code |-> "UPLOAD_ERROR",
                      data |-> [error_message |-> "Not found location"],
                      instruction |-> "Not found location", trace_id |-> h],
                     NoCalls, NoRec, v.writes)
      /\ UNCHANGED <<clock, task, plHistory, sess, pdf, pl, nextHandle, nextPdf, nextPl, disk, nextFile>>
    ELSE
      /\ pdf' = [pdf EXCEPT ![request_id] = reset_upload_session(h, request_id, location_id)]
      /\ last' = ran(upload_info,
                     [status |-> "error", code |-> "UPLOAD_ERROR",
                      data |-> [error_message |->
                                  IF Get(upload_info, "status") = "error"
                                    THEN <<"Upload error", Get(upload_info, "error_message")>>
                                    ELSE <<"Upload not completed">>,
                                upload_url |-> UploadUrl(h, location_id, request_id)],
                      instruction |-> "upload steps", trace_id |-> h],
                     NoCalls, NoRec, v.writes \o <<"upload_sds_pdf">>)
      /\ UNCHANGED <<clock, task, plHistory, sess, pl, nextHandle, nextPdf, nextPl, disk, nextFile>>
  ELSE \E response \in ExtractionResponses \cup {TransportError} :
  IF response = TransportError THEN
    /\ last' = ran(upload_info, connection_error_response(h, response.text),
                   call, response, v.writes)
    /\ UNCHANGED <<clock, task, plHistory, sess, pdf, pl, nextHandle, nextPdf, nextPl, disk, nextFile>>
  ELSE IF response.status_code = 200 THEN
    IF ~ValidExtraction(response.doc) THEN
      /\ last' = ran(upload_info, Unhandled, call, response, v.writes)
      /\ UNCHANGED <<clock, task, plHistory, sess, pdf, pl, nextHandle, nextPdf, nextPl, disk, nextFile>>
    ELSE
      LET data == model_dump(response.doc)
          progress == data["progress"] IN
      /\ pdf' = [pdf EXCEPT ![request_id] =
                   Merge(upload_info, [status |-> PolledStatus(progress),
                                       data |-> data, progress |-> progress])]
      /\ last' = ran(upload_info,
                     [status |-> "success", code |-> "UPLOAD_EXTRACTING",
                      data |-> Merge([session_handle |-> h, request_id |-> request_id,
                                      progress |-> progress], data),
                      instruction |-> "poll again", trace_id |-> h],
                     call, response, v.writes \o <<"upload_sds_pdf">>)
      /\ UNCHANGED <<clock, task, plHistory, sess, pl, nextHandle, nextPdf, nextPl, disk, nextFile>>
  ELSE
    LET e == ToolApiError(response, h) IN
    /\ sess' = [sess EXCEPT ![h] = e.rec]
    /\ last' = ran(upload_info, e.resp, call, response, v.writes \o e.writes)
    /\ UNCHANGED <<clock, task, plHistory, pdf, pl, nextHandle, nextPdf, nextPl, disk, nextFile>>

ExpirePdf(r) ==
  /\ Present(pdf[r])
  /\ pdf' = [pdf EXCEPT ![r] = NoRec]
  /\ last' = Ran("expire", 0, r, Null, NoRec, NoRec, NoCalls, NoRec, NoWrites)
  /\ UNCHANGED <<clock, task, plHistory, sess, pl, nextHandle, nextPdf, nextPl, disk, nextFile>>


\* ---------------------------------------------------- product-list import flow
\* Names tempfile.NamedTemporaryFile gives the uploaded spreadsheets, in order.
FileNames == <<"tmp1.xlsx", "tmp2.xlsx", "tmp3.xlsx", "tmp4.xlsx">>
FilePaths == {FileNames[i] : i \in DOMAIN FileNames}

\* The spreadsheets a user uploads: what pd.read_excel makes of them.
\*   good    two data rows, one of them with an empty cell
\*   header  a header row and no data row
\*   blank   an empty sheet
\*   dated   a data row with a date cell (json.dumps cannot serialise it)
\*   corrupt not a spreadsheet (pd.read_excel raises)
FileKinds == {"good", "header", "blank", "dated", "corrupt"}

Columns(kind) ==
  IF kind \in {"good", "header", "dated"} THEN <<"Name", "SUPPLIER">> ELSE <<>>

Rows(kind) ==
  IF kind = "good" THEN << [Name |-> "Acetone", SUPPLIER |-> "Acme"],
                           [Name |-> "", SUPPLIER |-> "Basf"] >>
  ELSE IF kind = "dated" THEN << [Name |-> "Ethanol", SUPPLIER |-> "date:2024-01-01"] >>
  ELSE <<>>

Readable(kind) == kind \notin {"absent", "corrupt"}
Serialisable(kind) == kind # "dated"

\* str.lower / str.upper on the names that occur.
LowerUnchanged(x) == x

Lower(x) ==
  CASE x = "Name" -> "name"
    [] x = "SUPPLIER" -> "supplier"
    [] x \in {"PRODUCT NAME", "Product Name"} -> "product name"
    [] x \in {"SUPPLIER OF SDS", "Supplier of SDS"} -> "supplier of sds"
    [] OTHER -> x

Upper(x) ==
  CASE x = "product_name" -> "PRODUCT_NAME"
    [] x = "supplier_of_sds" -> "SUPPLIER_OF_SDS"
    [] OTHER -> x

\* JSON lists as mapping values, written as text: a list is not hashable.
ListValues == {"[name]"}

\* The mapped_data arguments of process (mapped_data: dict): none, a mapping
\* of the two required target fields to the extracted column names, and a
\* mapping whose value is a list of column names.
MappedArgs ==
  { NoRec,
    [product_name |-> "name", supplier_of_sds |-> "supplier"],
    [product_name |-> "[name]"] }

\* column_mapping[value] = key raises TypeError for a value that is a list.
Hashable(mapped_data) == \A k \in DOMAIN mapped_data : mapped_data[k] \notin ListValues

\* The upload URL of the product-list form (tools.py 2265, 2342, 2533).
PlUploadUrl(h, request_id) == <<"uploadProductList", h, request_id>>

\* tools.py process_upload_product_list_excel_data, column_mapping: the
\* mapping inverted (column name -> target field).
column_mapping(mapped_data) ==
  [c \in {mapped_data[k] : k \in DOMAIN mapped_data} |->
     CHOOSE k \in DOMAIN mapped_data : mapped_data[k] = c]

\* An empty cell is NaN to pandas; `not value or pd.isna(value)` skips it.
NaN == "NaN"

\* Cells that are not text are written with their Python type: the number 0,
\* the number 7 and the booleans.
IntZero == "int:0"
IntSeven == "int:7"
BoolFalse == "bool:False"
BoolTrue == "bool:True"

\* `not value`: the empty string, the number 0 and False are falsy.
Falsy(value) == value \in {"", IntZero, BoolFalse}

\* `if not value or pd.isna(value): continue`
Omitted(value) == Falsy(value) \/ value = NaN

\* One spreadsheet row projected through the mapping: empty cells and cells
\* of unmapped columns are dropped, the keys are the uppercased target fields.
extracted_row(data, cm) ==
  LET keys == {k \in DOMAIN data : ~Omitted(data[k]) /\ Lower(k) \in DOMAIN cm} IN
  [t \in {Upper(cm[Lower(k)]) : k \in keys} |->
     data[CHOOSE k \in keys : Upper(cm[Lower(k)]) = t]]

extracted_data(data_list, cm) ==
  SelectSeq([i \in 1..Len(data_list) |-> extracted_row(data_list[i], cm)],
            LAMBDA row : DOMAIN row # {})

\* json.dumps(extracted_data): a non-empty string whatever the rows are.
json_dumps(rows) == <<"json", rows>>

\* Python truthiness of d.get(k) for a dict or list value.
TruthyD(d, k) == k \in DOMAIN d /\ DOMAIN d[k] # {}

\* tools.py upload_product_list_excel_file
\* The history of one product-list record: uploaded is whether a file was
\* posted to it since it was created or last reset, validated whether
\* validate has answered OK since that upload, with no reset and no upload
\* after it.
NoHistory == [uploaded |-> FALSE, validated |-> FALSE]
FileUploaded == [uploaded |-> TRUE, validated |-> FALSE]
Validated(history) == [uploaded |-> history.uploaded, validated |-> history.uploaded]

upload_product_list_excel_file(h) ==
  LET v == validate_session(h) IN
  IF v.expired THEN
    /\ last' = Ran("upload_product_list_excel_file", h, 0, Null, NoRec,
                   v.info, NoCalls, NoRec, NoWrites)
    /\ UNCHANGED <<clock, task, plHistory, sess, pdf, pl, nextHandle, nextPdf, nextPl, disk, nextFile>>
  ELSE
    /\ nextPl <= MaxPl
    /\ LET request_id == nextPl IN
       /\ pl' = [pl EXCEPT ![request_id] =
                   [session_id |-> h, request_id |-> request_id, status |-> "inited"]]
       /\ nextPl' = nextPl + 1
       /\ last' = Ran("upload_product_list_excel_file", h, request_id, Null, NoRec,
                      [status |-> "success", code |-> "OK",
                       data |-> [session_handle |-> h, request_id |-> request_id,
                                 upload_url |-> PlUploadUrl(h, request_id)],
                       instruction |-> "upload steps", trace_id |-> h],
                      NoCalls, NoRec, v.writes \o <<"upload_product_list">>)
       /\ plHistory' = [plHistory EXCEPT ![request_id] = NoHistory]
    /\ UNCHANGED <<clock, task, sess, pdf, nextHandle, nextPdf, disk, nextFile>>

\* main.py upload_product_list (POST /uploadProductList): any session_id and
\* request_id, a file of any kind.
upload_product_list(session_id, request_id, kind) ==
  LET info == sess[session_id]
      upload_info == PlRec(session_id, request_id)
      ran(arg, resp, writes) ==
        Ran("upload_product_list", session_id, request_id, arg, upload_info,
            resp, NoCalls, NoRec, writes)
  IN
  IF ~Present(info) THEN
    /\ last' = ran(kind, [status |-> "error", message |-> "Session expired"], NoWrites)
    /\ UNCHANGED <<clock, task, plHistory, sess, pdf, pl, nextHandle, nextPdf, nextPl, disk, nextFile>>
  ELSE IF ~Present(upload_info) THEN
    /\ last' = ran(kind, [status |-> "error", message |-> "Upload session expired"], NoWrites)
    /\ UNCHANGED <<clock, task, plHistory, sess, pdf, pl, nextHandle, nextPdf, nextPl, disk, nextFile>>
  ELSE
    /\ nextFile <= MaxFiles
    /\ LET tmp_file_path == FileNames[nextFile] IN
       /\ disk' = [disk EXCEPT ![tmp_file_path] = kind]
       /\ nextFile' = nextFile + 1
       /\ IF Readable(kind) THEN
            /\ pl' = [pl EXCEPT ![request_id] =
                        [status |-> "uploaded", session_id |-> session_id,
                         request_id |-> request_id,
                         extracted_columns |->
                           [i \in DOMAIN Columns(kind) |-> Lower(Columns(kind)[i])],
                         total_row |-> Len(Rows(kind)),
                         file_name |-> "products.xlsx",
                         file_path |-> tmp_file_path]]
            /\ last' = ran(kind, [status |-> "success",
                                  message |-> "Product list upload processing started",
                                  filename |-> "products.xlsx"],
                           <<"upload_product_list">>)
          ELSE
            /\ pl' = [pl EXCEPT ![request_id] =
                        [status |-> "error", session_id |-> session_id,
                         request_id |-> request_id,
                         file_name |-> "products.xlsx",
                         file_path |-> tmp_file_path,
                         error_message |-> "Error processing product list"]]
            /\ last' = ran(kind, [status |-> "error",
                                  message |-> "Error processing product list"],
                           <<"upload_product_list">>)
    /\ plHistory' = [plHistory EXCEPT ![request_id] = FileUploaded]
    /\ UNCHANGED <<clock, task, sess, pdf, nextHandle, nextPdf, nextPl>>

\* tools.py validate_upload_product_list_excel_data, the statuses from which
\* the record is validated.
ValidatableStatusesUploadedOnly == {"uploaded"}

ValidatableStatuses == {"uploaded", "validated"}

\* The UPLOAD_ERROR answer of a reset, with the upload URL.
PlResetResponse(h, request_id, error) ==
  [status |-> "error", code |-> "UPLOAD_ERROR",
   data |-> [error_message |-> error, upload_url |-> PlUploadUrl(h, request_id)],
   instruction |-> "upload steps", trace_id |-> h]

\* The answer of a call that finds the work already done.
PlShortCircuit(h, request_id, code, extra) ==
  [status |-> "success", code |-> code,
   data |-> Merge([session_handle |-> h, request_id |-> request_id], extra),
   instruction |-> "continue", trace_id |-> h]

\* tools.py validate_upload_product_list_excel_data
validate_upload_product_list_excel_data(h, request_id) ==
  LET v == validate_session(h)
      upload_info == PlRec(h, request_id)
      upload_status == Get(upload_info, "status")
      ran(pre, resp, writes) ==
        Ran("validate_upload_product_list_excel_data", h, request_id, Null, pre,
            resp, NoCalls, NoRec, writes)
      unchanged(resp) ==
        /\ last' = ran(upload_info, resp, v.writes)
        /\ UNCHANGED <<clock, task, plHistory, sess, pdf, pl, nextHandle, nextPdf, nextPl, disk, nextFile>>
      reset(error) ==
        /\ pl' = [pl EXCEPT ![request_id] = reset_upload_session(h, request_id, Null)]
        /\ last' = ran(upload_info, PlResetResponse(h, request_id, error),
                       v.writes \o <<"upload_product_list">>)
        /\ plHistory' = [plHistory EXCEPT ![request_id] = NoHistory]
        /\ UNCHANGED <<clock, task, sess, pdf, nextHandle, nextPdf, nextPl, disk, nextFile>>
  IN
  IF v.expired THEN
    /\ last' = ran(NoRec, v.info, NoWrites)
    /\ UNCHANGED <<clock, task, plHistory, sess, pdf, pl, nextHandle, nextPdf, nextPl, disk, nextFile>>
  ELSE IF ~Present(upload_info) THEN
    unchanged([status |-> "error", code |-> "UPLOAD_SESSION_EXPIRED",
               instruction |-> "restart upload", trace_id |-> h])
  ELSE IF upload_status = "processing" /\ TruthyD(upload_info, "mapped_data") THEN
    unchanged(PlShortCircuit(h, request_id, "UPLOAD_PROCESSING", NoRec))
  ELSE IF upload_status = "processed" THEN
    unchanged(PlShortCircuit(h, request_id, "UPLOAD_PROCESSED", NoRec))
  ELSE IF upload_status = "extracting" /\ TruthyS(upload_info, "product_list_id") THEN
    unchanged(PlShortCircuit(h, request_id, "UPLOAD_EXTRACTING",
                             [product_list_id |-> upload_info["product_list_id"]]))
  ELSE IF upload_status # "extracting" /\ upload_status \notin ValidatableStatuses THEN
    reset(IF upload_status = "error"
            THEN <<"Upload error", Get(upload_info, "error_message")>>
            ELSE <<"Upload not completed">>)
  ELSE IF ~TruthyS(upload_info, "file_path") \/ ~TruthyS(upload_info, "file_name") THEN
    reset(<<"Error when accessing file">>)
  ELSE IF ~TruthyN(upload_info, "total_row") THEN
    reset(<<"Not found any data from uploaded file">>)
  ELSE IF ~TruthyD(upload_info, "extracted_columns") THEN
    reset(<<"Unable to extract columns from uploaded file">>)
  ELSE
    /\ pl' = [pl EXCEPT ![request_id] = Merge(upload_info, [status |-> "validated"])]
    /\ last' = ran(upload_info,
                   [status |-> "success", code |-> "OK",
                    data |-> [session_handle |-> h, request_id |-> request_id,
                              extracted_columns |-> upload_info["extracted_columns"]],
                    instruction |-> "map columns", trace_id |-> h],
                   v.writes \o <<"upload_product_list">>)
    /\ plHistory' = [plHistory EXCEPT ![request_id] = Validated(@)]
    /\ UNCHANGED <<clock, task, sess, pdf, nextHandle, nextPdf, nextPl, disk, nextFile>>

\* Bodies of the answers of the import-submission endpoint (uploadProductList):
\* accepted with an id, accepted without one, accepted with a body that is not
\* JSON, and the failures.
SubmitResponses ==
  { [status_code |-> 200, text |-> "accepted", json |-> TRUE,
     doc |-> [file_name |-> "stored.xlsx", file_path |-> "lists/stored.xlsx",
              product_list_id |-> "pl1"]],
    [status_code |-> 200, text |-> "accepted, no id", json |-> TRUE,
     doc |-> [file_name |-> "stored.xlsx", file_path |-> "lists/stored.xlsx"]],
    [status_code |-> 200, text |-> "<html>ok</html>", json |-> FALSE, doc |-> NoRec] }
  \cup { e \in ErrorResponses : ~e.json \/ TruthyS(e.doc, "error_message") }

\* tools.py process_upload_product_list_excel_data, the statuses from which
\* the spreadsheet is parsed.
ProcessableStatusesWithUploaded == {"validated", "processing", "uploaded"}

ProcessableStatuses == {"validated", "processing"}

\* The UPLOAD_PROCESS_ERROR answer of a reset, with the upload URL.
PlProcessError(h, request_id, error) ==
  [status |-> "error", code |-> "UPLOAD_PROCESS_ERROR",
   data |-> [error_message |-> error, upload_url |-> PlUploadUrl(h, request_id)],
   instruction |-> "upload steps", trace_id |-> h]

PlValidationError(h, error) ==
  [status |-> "error", code |-> "UPLOAD_VALIDATION_ERROR",
   data |-> [error_message |-> error],
   instruction |-> "Call validate_upload_product_list_excel_data tool again",
   trace_id |-> h]

\* What one run of the handler ends with: the upload record, the session
\* record, the temp files, the answer, the backend requests, the upstream
\* answer, the cache keys written and the statuses written to the upload
\* record, in order.
Outcome(rec, srec, dsk, resp, calls, got, writes, trail) ==
  [rec |-> rec, srec |-> srec, dsk |-> dsk, resp |-> resp, calls |-> calls,
   got |-> got, writes |-> writes, trail |-> trail, sent |-> NoRec]

\* tools.py process_upload_product_list_excel_data, the record written when
\* the backend accepts the submission.
AcceptedRecordWithoutId(upload_info, response_data) ==
  Merge(upload_info,
        [uploaded_file_name |-> Get(response_data, "file_name"),
         uploaded_file_path |-> Get(response_data, "file_path"),
         status |-> "extracting"])

AcceptedRecordFinished(upload_info, response_data) ==
  Merge(upload_info,
        [uploaded_file_name |-> Get(response_data, "file_name"),
         uploaded_file_path |-> Get(response_data, "file_path"),
         product_list_id |-> Get(response_data, "product_list_id"),
         status |-> "finished"])

AcceptedRecord(upload_info, response_data) ==
  Merge(upload_info,
        [uploaded_file_name |-> Get(response_data, "file_name"),
         uploaded_file_path |-> Get(response_data, "file_path"),
         product_list_id |-> Get(response_data, "product_list_id"),
         status |-> "extracting"])

\* os.remove(file_path) after a 200 answer.
RemovedNothing(dsk, file_path) == dsk

Removed(dsk, file_path) == [dsk EXCEPT ![file_path] = "absent"]

\* tools.py process_upload_product_list_excel_data, the non-200 branch: the
\* upload record is not written, it stays as it was when the request was sent.
RejectedRecordReset(h, request_id, stored) == reset_upload_session(h, request_id, Null)

RejectedRecord(h, request_id, stored) == stored

\* tools.py process_upload_product_list_excel_data, from the POST on:
\* upload_info is the record read at the start, stored the record in the
\* cache by now, converted_data the payload to submit.
Submit(h, request_id, upload_info, stored, converted_data, writes, trail) ==
  LET info == sess[h]
      file_path == upload_info["file_path"]
      call == <<[ep |-> "uploadProductList", api_key |-> Get(info, "api_key"),
                 extracted |-> converted_data]>>
      requested == trail \o <<"request">>
      reset(dsk, error, calls, got, tr) ==
        Outcome(reset_upload_session(h, request_id, Null), info, dsk,
                PlProcessError(h, request_id, error), calls, got,
                writes \o <<"upload_product_list">>, tr \o <<"inited">>)
      outcome(response) ==
        IF response = TransportError THEN
          reset(disk, <<"Error extracting file", response.text>>, call, response, requested)
        ELSE IF response.status_code = 200 THEN
          LET removed == Removed(disk, file_path) IN
          IF ~response.json THEN
            reset(removed, <<"Error extracting file", "not JSON">>, call, response, requested)
          ELSE
            Outcome(AcceptedRecord(upload_info, response.doc),
                    info, removed,
                    [status |-> "success", code |-> "OK",
                     data |-> [session_handle |-> h, request_id |-> request_id,
                               product_list_id |-> Get(response.doc, "product_list_id")],
                     instruction |-> "check status", trace_id |-> h],
                    call, response, writes \o <<"upload_product_list">>,
                    requested \o <<"extracting">>)
        ELSE
          LET e == ToolApiError(response, h) IN
          Outcome(RejectedRecord(h, request_id, stored), e.rec, disk, e.resp, call,
                  response, writes \o e.writes, requested)
  IN
  IF disk[file_path] = "absent" THEN
    { reset(disk, <<"Error extracting file", "No such file">>, NoCalls, NoRec, trail) }
  ELSE
    { [outcome(response) EXCEPT !.sent = stored] :
        response \in SubmitResponses \cup {TransportError} }

\* tools.py process_upload_product_list_excel_data, the parse branch: the
\* three writes before the POST.
Parse(h, request_id, upload_info, mapped_data, writes) ==
  LET file_path == upload_info["file_path"]
      kind == disk[file_path]
      rows == extracted_data(Rows(kind), column_mapping(mapped_data))
      counted == Merge(upload_info,
                       [extracted_rows_count |-> <<Len(rows), upload_info["total_row"] - 1>>])
      processed == Merge(upload_info,
                         [extracted_data |-> json_dumps(rows), status |-> "processed"])
      w1 == writes \o <<"upload_product_list">>
  IN
  IF ~Hashable(mapped_data) THEN
    { Outcome(Merge(upload_info, [mapped_data |-> mapped_data, status |-> "processing"]),
              sess[h], disk, Unhandled, NoCalls, NoRec, w1, <<"processing">>) }
  ELSE IF ~Readable(kind) THEN
    { Outcome(reset_upload_session(h, request_id, Null), sess[h], disk,
              PlProcessError(h, request_id, <<"Error when processing file">>),
              NoCalls, NoRec, w1 \o <<"upload_product_list">>,
              <<"processing", "inited">>) }
  ELSE IF ~Serialisable(kind) THEN
    { Outcome(reset_upload_session(h, request_id, Null), sess[h], disk,
              PlProcessError(h, request_id, <<"Error extracting file">>),
              NoCalls, NoRec, w1 \o <<"upload_product_list", "upload_product_list">>,
              <<"processing", counted["status"], "inited">>) }
  ELSE
    Submit(h, request_id, upload_info, processed, json_dumps(rows),
           w1 \o <<"upload_product_list", "upload_product_list">>,
           <<"processing", counted["status"], "processed">>)

\* mapped_data as the handler uses it: the argument, or the stored one.
EffectiveMapping(upload_info, mapped_data) ==
  IF DOMAIN mapped_data # {} THEN mapped_data
  ELSE IF Has(upload_info, "mapped_data") THEN upload_info["mapped_data"]
  ELSE NoRec

\* tools.py process_upload_product_list_excel_data: every way one call with a
\* valid session and a record can end.
ProcessOutcomes(h, request_id, upload_info, mapped_data, writes) ==
  LET upload_status == Get(upload_info, "status")
      mapped == EffectiveMapping(upload_info, mapped_data)
      same(resp) == { Outcome(upload_info, sess[h], disk, resp, NoCalls, NoRec, writes, <<>>) }
  IN
  IF \/ ~TruthyS(upload_info, "file_path")
     \/ ~TruthyS(upload_info, "file_name")
     \/ ~TruthyN(upload_info, "total_row") THEN
    same(PlValidationError(h, "Validation error"))
  ELSE IF upload_status = "processed" /\ Has(upload_info, "extracted_data") THEN
    Submit(h, request_id, upload_info, upload_info, upload_info["extracted_data"], writes, <<>>)
  ELSE IF upload_status = "extracting" THEN
    IF TruthyS(upload_info, "product_list_id") THEN
      same(PlShortCircuit(h, request_id, "UPLOAD_EXTRACTING",
                          [product_list_id |-> upload_info["product_list_id"]]))
    ELSE
      Submit(h, request_id, upload_info, upload_info,
             IF Has(upload_info, "extracted_data") THEN upload_info["extracted_data"]
             ELSE <<Null>>,
             writes, <<>>)
  ELSE IF upload_status \notin ProcessableStatuses \/ DOMAIN mapped = {} THEN
    same(PlValidationError(h, "Not validated"))
  ELSE
    Parse(h, request_id, upload_info, mapped, writes)

\* tools.py process_upload_product_list_excel_data
process_upload_product_list_excel_data(h, request_id, mapped_data) ==
  LET v == validate_session(h)
      upload_info == PlRec(h, request_id)
      ran(pre, o) ==
        [Ran("process_upload_product_list_excel_data", h, request_id, mapped_data, pre,
             o.resp, o.calls, o.got, o.writes) EXCEPT !.trail = o.trail, !.sent = o.sent]
  IN
  IF v.expired THEN
    /\ last' = Ran("process_upload_product_list_excel_data", h, request_id, mapped_data,
                   NoRec, v.info, NoCalls, NoRec, NoWrites)
    /\ UNCHANGED <<clock, task, plHistory, sess, pdf, pl, nextHandle, nextPdf, nextPl, disk, nextFile>>
  ELSE IF ~Present(upload_info) THEN
    /\ last' = Ran("process_upload_product_list_excel_data", h, request_id, mapped_data,
                   upload_info,
                   [status |-> "error", code |-> "UPLOAD_SESSION_EXPIRED",
                    instruction |-> "restart upload", trace_id |-> h],
                   NoCalls, NoRec, v.writes)
    /\ UNCHANGED <<clock, task, plHistory, sess, pdf, pl, nextHandle, nextPdf, nextPl, disk, nextFile>>
  ELSE
    \E o \in ProcessOutcomes(h, request_id, upload_info, mapped_data, v.writes) :
      /\ pl' = [pl EXCEPT ![request_id] = o.rec]
      /\ sess' = [sess EXCEPT ![h] = o.srec]
      /\ disk' = o.dsk
      /\ last' = ran(upload_info, o)
      /\ plHistory' = IF \E i \in 1..Len(o.trail) : o.trail[i] = "inited"
                        THEN [plHistory EXCEPT ![request_id] = NoHistory]
                        ELSE plHistory
      /\ UNCHANGED <<clock, task, pdf, nextHandle, nextPdf, nextPl, nextFile>>

\* The server process is stopped while the handler re-parses the spreadsheet:
\* the first write (status processing, with the mapping) is all that is left.
process_interrupted(h, request_id, mapped_data) ==
  LET v == validate_session(h)
      upload_info == PlRec(h, request_id)
      mapped == EffectiveMapping(upload_info, mapped_data)
  IN
  /\ ~v.expired
  /\ Present(upload_info)
  /\ TruthyS(upload_info, "file_path")
  /\ TruthyS(upload_info, "file_name")
  /\ TruthyN(upload_info, "total_row")
  /\ upload_info["status"] \in ProcessableStatuses
  /\ DOMAIN mapped # {}
  /\ pl' = [pl EXCEPT ![request_id] =
              Merge(upload_info, [mapped_data |-> mapped, status |-> "processing"])]
  /\ last' = Ran("process_interrupted", h, request_id, mapped_data, upload_info,
                 NoRec, NoCalls, NoRec, v.writes \o <<"upload_product_list">>)
  /\ UNCHANGED <<clock, task, plHistory, sess, pdf, nextHandle, nextPdf, nextPl, disk, nextFile>>

\* Bodies of the answers of getImportProductListStatus.
ImportStatusResponses ==
  { [status_code |-> 200, text |-> "status", json |-> TRUE, doc |-> [progress |-> p]] :
      p \in {"1/2", "2/2"} }
  \cup { e \in ErrorResponses : ~e.json \/ TruthyS(e.doc, "error_message") }

\* tools.py check_upload_product_list_excel_data_status: the upload record is
\* neither read nor written.
check_upload_product_list_excel_data_status(h, product_list_id) ==
  LET v == validate_session(h)
      info == v.info
      call == <<Call("getImportProductListStatus", info)>>
      ran(resp, calls, got, writes) ==
        Ran("check_upload_product_list_excel_data_status", h, 0, product_list_id, NoRec,
            resp, calls, got, writes)
  IN
  IF v.expired THEN
    /\ last' = ran(info, NoCalls, NoRec, NoWrites)
    /\ UNCHANGED <<clock, task, plHistory, sess, pdf, pl, nextHandle, nextPdf, nextPl, disk, nextFile>>
  ELSE \E response \in ImportStatusResponses \cup {TransportError} :
  IF response = TransportError THEN
    /\ last' = ran(connection_error_response(h, response.text), call, response, v.writes)
    /\ UNCHANGED <<clock, task, plHistory, sess, pdf, pl, nextHandle, nextPdf, nextPl, disk, nextFile>>
  ELSE IF response.status_code = 200 THEN
    /\ last' = ran([status |-> "success", code |-> "OK",
                    data |-> Merge([session_handle |-> h,
                                    progress |-> Get(response.doc, "progress")],
                                   response.doc),
                    instruction |-> "show progress", trace_id |-> h],
                   call, response, v.writes)
    /\ UNCHANGED <<clock, task, plHistory, sess, pdf, pl, nextHandle, nextPdf, nextPl, disk, nextFile>>
  ELSE
    LET e == ToolApiError(response, h) IN
    /\ sess' = [sess EXCEPT ![h] = e.rec]
    /\ last' = ran(e.resp, call, response, v.writes \o e.writes)
    /\ UNCHANGED <<clock, task, plHistory, pdf, pl, nextHandle, nextPdf, nextPl, disk, nextFile>>

ExpirePl(r) ==
  /\ Present(pl[r])
  /\ pl' = [pl EXCEPT ![r] = NoRec]
  /\ last' = Ran("expire", 0, r, Null, NoRec, NoRec, NoCalls, NoRec, NoWrites)
  /\ plHistory' = [plHistory EXCEPT ![r] = NoHistory]
  /\ UNCHANGED <<clock, task, sess, pdf, nextHandle, nextPdf, nextPl, disk, nextFile>>

Minted == 1..(nextHandle - 1)
Callers == Minted \cup {Stranger}      \* handles a caller can name

Init ==
  /\ sess = [h \in AnyHandle |-> NoRec]
  /\ pdf = [r \in PdfIds |-> NoRec]
  /\ pl = [r \in PlIds |-> NoRec]
  /\ nextHandle = 1
  /\ nextPdf = 1
  /\ nextPl = 1
  /\ disk = [f \in FilePaths |-> "absent"]
  /\ nextFile = 1
  /\ last = Ran("init", 0, 0, Null, NoRec, NoRec, NoCalls, NoRec, NoWrites)
  /\ clock = [now |-> 0, expires |-> [h \in AnyHandle |-> 0],
              login |-> [h \in AnyHandle |-> 0]]
  /\ plHistory = [r \in PlIds |-> NoHistory]
  /\ task = [t \in Tasks |-> Idle]

\* The session operations, for the callers that hold a minted handle.
\* get_login_url is also called without a handle (Stranger has no record here).
SessionNext ==
  \/ \E h \in Callers : get_login_url(h)
  \/ \E h \in Minted, k \in Credentials : login(h, k)
  \/ \E h \in Minted : check_auth_status(h)
  \/ \E h \in Minted : get_limits(h)
  \/ \E h \in Minted : ExpireSession(h)

PdfNext ==
  \/ \E h \in Minted, loc \in Locations : add_sds_by_uploading_sds_pdf_file(h, loc)
  \/ \E h \in Minted, loc \in Locations : add_sds_by_url(h, loc)
  \/ \E h \in Minted, r \in PdfIds, d \in Departments, is_pdf \in BOOLEAN :
       upload_file(h, r, d, is_pdf)
  \/ \E h \in Minted, r \in PdfIds : check_upload_sds_pdf_status(h, r)
  \/ \E r \in PdfIds : ExpirePdf(r)

\* Sessions and the PDF upload flow.
Next == SessionNext \/ PdfNext

Spec == Init /\ [][Next]_vars

\* The session lifecycle alone, also for a caller that names a handle nobody minted.
NextSession ==
  \/ \E h \in Callers : get_login_url(h)
  \/ \E h \in Callers, k \in Credentials : login(h, k)
  \/ \E h \in Callers : check_auth_status(h)
  \/ \E h \in Callers : get_limits(h)
  \/ \E h \in Callers, step_id \in StepIds : get_setup_onboarding_step(h, step_id)
  \/ \E h \in Callers : ExpireSession(h)

SpecSession == Init /\ [][NextSession]_vars

\* Sessions and the product-list import flow.
NextPL ==
  \/ \E h \in Callers : get_login_url(h)
  \/ \E h \in Minted, k \in Credentials : login(h, k)
  \/ \E h \in Minted : ExpireSession(h)
  \/ \E h \in Minted : upload_product_list_excel_file(h)
  \/ \E h \in Minted, r \in PlIds, kind \in FileKinds : upload_product_list(h, r, kind)
  \/ \E h \in Minted, r \in PlIds : validate_upload_product_list_excel_data(h, r)
  \/ \E h \in Minted, r \in PlIds, m \in MappedArgs :
       process_upload_product_list_excel_data(h, r, m)
  \/ \E h \in Minted, r \in PlIds, m \in MappedArgs : process_interrupted(h, r, m)
  \/ \E h \in Minted : check_upload_product_list_excel_data_status(h, "pl1")
  \/ \E r \in PlIds : ExpirePl(r)

SpecPL == Init /\ [][NextPL]_vars

\* The projection of one spreadsheet row through a mapping, on its own
\* (tools.py 2592-2614): the header row, the two cells and the mapping vary.
SheetColumns ==
  { <<"PRODUCT NAME", "SUPPLIER OF SDS">>,
    <<"Product Name", "Supplier of SDS">>,
    <<"Name", "SUPPLIER">> }

CellValues == {"", NaN, "Acetone", "Acme", IntZero, IntSeven, BoolFalse, BoolTrue}

ExtractMappings ==
  { [product_name |-> "product name", supplier_of_sds |-> "supplier of sds"],
    [product_name |-> "PRODUCT NAME", supplier_of_sds |-> "SUPPLIER OF SDS"],
    [product_name |-> "name", supplier_of_sds |-> "supplier"],
    [product_name |-> "product name"] }

\* df.to_dict('records') of a sheet with one data row.
OneRow(columns, c1, c2) ==
  << [k \in {columns[1], columns[2]} |-> IF k = columns[1] THEN c1 ELSE c2] >>

Extract(columns, c1, c2, mapped_data) ==
  /\ last' = Ran("extract", 0, 0, mapped_data, OneRow(columns, c1, c2)[1],
                 [rows |-> extracted_data(OneRow(columns, c1, c2),
                                          column_mapping(mapped_data))],
                 NoCalls, NoRec, NoWrites)
  /\ UNCHANGED <<clock, task, plHistory, sess, pdf, pl, nextHandle, nextPdf, nextPl, disk, nextFile>>

NextExtract ==
  \E columns \in SheetColumns, c1 \in CellValues, c2 \in CellValues,
     mapped_data \in ExtractMappings : Extract(columns, c1, c2, mapped_data)

SpecExtract == Init /\ [][NextExtract]_vars

\* ------------------------------------------------- the session key in time
\* cache.py RedisClient.set: the key is stored with ex=REDIS_TTL, so every
\* set restarts its time to live.
SetExpiry(c, h) == [c EXCEPT !.expires[h] = c.now + TtlTicks]

\* utils.py validate_session on a logged-in record: redis_client.set(session_key, info).
ValidatedExpiryKept(c, h) == c

ValidatedExpiry(c, h) == SetExpiry(c, h)

\* tools.py get_login_url without a usable handle, in time.
TimedGetLoginUrl ==
  /\ nextHandle <= MaxSessions
  /\ sess' = [sess EXCEPT ![nextHandle] = [logged_in |-> FALSE, login_error |-> FALSE]]
  /\ nextHandle' = nextHandle + 1
  /\ clock' = SetExpiry(clock, nextHandle)
  /\ last' = Ran("get_login_url", nextHandle, 0, Null, NoRec,
                 [status |-> "success", code |-> "SESSION_CREATED",
                  data |-> [session_handle |-> nextHandle, login_url |-> LoginUrl(nextHandle)],
                  instruction |-> "login", trace_id |-> nextHandle],
                 NoCalls, NoRec, <<"sds_mcp">>)
  /\ UNCHANGED <<plHistory, task, pdf, pl, nextPdf, nextPl, disk, nextFile>>

\* main.py login, in time: both answers of the identity endpoint set the key.
TimedLogin(session_id, api_key) ==
  \E response \in IdentityResponses(api_key) :
    /\ sess' = [sess EXCEPT ![session_id] =
                  IF response.status_code = 200
                    THEN LoggedInRecord(api_key, response.doc)
                    ELSE LoginErrorRecord(response)]
    /\ clock' = IF response.status_code = 200
                  THEN [SetExpiry(clock, session_id) EXCEPT !.login[session_id] = clock.now]
                  ELSE SetExpiry(clock, session_id)
    /\ last' = Ran("login", session_id, 0, api_key, sess[session_id],
                   [status |-> IF response.status_code = 200 THEN "success" ELSE "error"],
                   <<[ep |-> "user", api_key |-> api_key]>>, response, <<"sds_mcp">>)
    /\ UNCHANGED <<plHistory, task, pdf, pl, nextHandle, nextPdf, nextPl, disk, nextFile>>

\* utils.py validate_session, in time (the first step of every tool).
TimedValidate(h) ==
  LET v == validate_session(h) IN
  /\ clock' = IF v.expired THEN clock ELSE ValidatedExpiry(clock, h)
  /\ last' = Ran("validate_session", h, 0, Null, sess[h], v.info, NoCalls, NoRec, v.writes)
  /\ UNCHANGED <<plHistory, task, sess, pdf, pl, nextHandle, nextPdf, nextPl, disk, nextFile>>

\* One tick: redis drops the keys whose time to live has run out.
Tick ==
  /\ clock.now < MaxClock
  /\ clock' = [clock EXCEPT !.now = clock.now + 1]
  /\ sess' = [h \in AnyHandle |->
                IF Present(sess[h]) /\ clock.expires[h] <= clock.now + 1
                  THEN NoRec ELSE sess[h]]
  /\ last' = Ran("tick", 0, 0, Null, NoRec, NoRec, NoCalls, NoRec, NoWrites)
  /\ UNCHANGED <<plHistory, task, pdf, pl, nextHandle, nextPdf, nextPl, disk, nextFile>>

NextTTL ==
  \/ TimedGetLoginUrl
  \/ \E h \in Minted, k \in Credentials : TimedLogin(h, k)
  \/ \E h \in Minted : TimedValidate(h)
  \/ Tick

SpecTTL == Init /\ [][NextTTL]_vars

\* ------------------------------------------- calls served at the same time
\* The handlers share nothing but the cache: no lock, no transaction and no
\* compare-and-set surrounds their cache operations, so calls served at the
\* same time (by server processes on one cache, and in upload_file across
\* `await file.read()`) interleave at every cache read, cache write and
\* backend request.  One step below is one such operation.
Active(tk) == tk.pc \notin {"idle", "done"}

\* Call t takes a step and becomes new; every other call that is between two
\* of its own steps has been split.
Stepped(t, new) ==
  task' = [u \in Tasks |->
             IF u = t THEN new
             ELSE IF Active(task[u]) THEN [task[u] EXCEPT !.split = TRUE]
             ELSE task[u]]

\* The call has returned: what it read is gone, its answer is kept.
Done(tk, code) ==
  [Idle EXCEPT !.op = tk.op, !.pc = "done", !.h = tk.h, !.r = tk.r, !.arg = tk.arg,
               !.code = code, !.split = tk.split]

\* utils.py validate_session, the cache read and the two early returns.
BeginTool(t, op, h, r) ==
  LET info == sess[h]
      tk == [Idle EXCEPT !.op = op, !.h = h, !.r = r, !.info = info] IN
  /\ ~Active(task[t])
  /\ Stepped(t, IF ~Present(info) THEN Done(tk, "SESSION_EXPIRED")
                ELSE IF ~TruthyB(info, "logged_in") THEN Done(tk, "AUTHENTICATION_ERROR")
                ELSE [tk EXCEPT !.pc = "write_back"])
  /\ UNCHANGED <<clock, plHistory, sess, pdf, pl, nextHandle, nextPdf, nextPl, disk,
                 nextFile, last>>

\* utils.py validate_session, `redis_client.set(session_key, info)`: the
\* record read at the start is written back.
WriteBack(t) ==
  /\ task[t].pc = "write_back"
  /\ sess' = [sess EXCEPT ![task[t].h] = task[t].info]
  /\ Stepped(t, [task[t] EXCEPT !.pc = "read_upload"])
  /\ UNCHANGED <<clock, plHistory, pdf, pl, nextHandle, nextPdf, nextPl, disk, nextFile, last>>

\* tools.py check_upload_sds_pdf_status, the read of the upload record and
\* the branches that return without a request.
PollRead(t) ==
  LET tk == task[t]
      upload_info == PdfRec(tk.h, tk.r)
      read == [tk EXCEPT !.upload_info = upload_info] IN
  /\ tk.op = "check_upload_sds_pdf_status"
  /\ tk.pc = "read_upload"
  /\ Stepped(t, IF ~Present(upload_info) THEN Done(read, "UPLOAD_SESSION_EXPIRED")
                ELSE IF IsFinished(upload_info) THEN Done(read, "UPLOAD_FINISHED")
                ELSE IF Get(upload_info, "status") \notin PolledStatuses THEN
                  IF ~TruthyS(upload_info, "location_id") THEN Done(read, "UPLOAD_ERROR")
                  ELSE [read EXCEPT !.pc = "reset"]
                ELSE [read EXCEPT !.pc = "request"])
  /\ UNCHANGED <<clock, plHistory, sess, pdf, pl, nextHandle, nextPdf, nextPl, disk,
                 nextFile, last>>

\* tools.py check_upload_sds_pdf_status, reset_upload_session of a record
\* that was read in status inited or error.
PollReset(t) ==
  LET tk == task[t] IN
  /\ tk.op = "check_upload_sds_pdf_status"
  /\ tk.pc = "reset"
  /\ pdf' = [pdf EXCEPT ![tk.r] =
               reset_upload_session(tk.h, tk.r, tk.upload_info["location_id"])]
  /\ Stepped(t, Done(tk, "UPLOAD_ERROR"))
  /\ UNCHANGED <<clock, plHistory, sess, pl, nextHandle, nextPdf, nextPl, disk, nextFile, last>>

\* The progress the backend has reported so far for the upload: what is
\* stored in the record and what the calls in flight were answered.
Reported ==
  {0} \cup { pdf[r]["progress"] : r \in {x \in PdfIds : Has(pdf[x], "progress")} }
      \cup { task[t].got.doc["progress"] :
               t \in {u \in Tasks : /\ task[u].op = "check_upload_sds_pdf_status"
                                     /\ task[u].pc = "write"} }

\* The answers of getExtractionStatus and uploadSDS taken here: a progress
\* of 40 or 100, the file accepted, and the 400 failures.
RaceExtractionResponses ==
  { e \in ExtractionResponses :
      \/ e.status_code = 200 /\ ValidExtraction(e.doc) /\ e.doc["progress"] <= 100
      \/ e.status_code = 400 /\ TruthyS(e.doc, "error_message") }

RaceUploadResponses == { e \in UploadResponses : e.status_code \in {200, 400} }

\* tools.py check_upload_sds_pdf_status, the request to getExtractionStatus.
\* The extraction does not go back: a progress answered is never below one
\* reported before.
PollRequest(t) ==
  LET tk == task[t] IN
  /\ tk.op = "check_upload_sds_pdf_status"
  /\ tk.pc = "request"
  /\ \E response \in RaceExtractionResponses \cup {TransportError} :
       LET answered == [tk EXCEPT !.got = response] IN
       IF response = TransportError THEN
         Stepped(t, Done(answered, "CONNECTION_ERROR"))
       ELSE IF response.status_code = 200 THEN
         IF ~ValidExtraction(response.doc) THEN Stepped(t, Done(answered, "UNHANDLED"))
         ELSE /\ \A p \in Reported : response.doc["progress"] >= p
              /\ Stepped(t, [answered EXCEPT !.pc = "write"])
       ELSE Stepped(t, [answered EXCEPT !.pc = "rejected"])
  /\ UNCHANGED <<clock, plHistory, sess, pdf, pl, nextHandle, nextPdf, nextPl, disk,
                 nextFile, last>>

\* tools.py check_upload_sds_pdf_status, the non-200 branch: handle_api_error
\* (which invalidates the session record when the key is rejected), and
\* server_error_response when the body is not JSON.
PollRejected(t) ==
  LET tk == task[t]
      e == ToolApiError(tk.got, tk.h) IN
  /\ tk.op = "check_upload_sds_pdf_status"
  /\ tk.pc = "rejected"
  /\ sess' = [sess EXCEPT ![tk.h] = e.rec]
  /\ Stepped(t, Done(tk, e.resp.code))
  /\ UNCHANGED <<clock, plHistory, pdf, pl, nextHandle, nextPdf, nextPl, disk, nextFile, last>>

\* tools.py check_upload_sds_pdf_status, the write after a 200: the record
\* read at the start with the status, payload and progress of the answer.
PollWrite(t) ==
  LET tk == task[t]
      data == model_dump(tk.got.doc)
      progress == data["progress"] IN
  /\ tk.op = "check_upload_sds_pdf_status"
  /\ tk.pc = "write"
  /\ pdf' = [pdf EXCEPT ![tk.r] =
               Merge(tk.upload_info, [status |-> PolledStatus(progress),
                                      data |-> data, progress |-> progress])]
  /\ Stepped(t, Done(tk, "UPLOAD_EXTRACTING"))
  /\ UNCHANGED <<clock, plHistory, sess, pl, nextHandle, nextPdf, nextPl, disk, nextFile, last>>

\* main.py upload_file, the read of the session record.
UploadBegin(t, session_id, request_id, department_id) ==
  LET info == sess[session_id]
      tk == [Idle EXCEPT !.op = "upload_file", !.h = session_id, !.r = request_id,
                         !.arg = department_id, !.info = info] IN
  /\ ~Active(task[t])
  /\ Stepped(t, IF ~Present(info) THEN Done(tk, "Session expired")
                ELSE [tk EXCEPT !.pc = "read_upload"])
  /\ UNCHANGED <<clock, plHistory, sess, pdf, pl, nextHandle, nextPdf, nextPl, disk,
                 nextFile, last>>

\* main.py upload_file, the read of the upload record (a .pdf file).
UploadRead(t) ==
  LET tk == task[t]
      upload_info == PdfRec(tk.h, tk.r)
      read == [tk EXCEPT !.upload_info = upload_info] IN
  /\ tk.op = "upload_file"
  /\ tk.pc = "read_upload"
  /\ Stepped(t, IF ~Present(upload_info) THEN Done(read, "Upload session expired")
                ELSE [read EXCEPT !.pc = "post"])
  /\ UNCHANGED <<clock, plHistory, sess, pdf, pl, nextHandle, nextPdf, nextPl, disk,
                 nextFile, last>>

\* main.py upload_file, after `await file.read()`: the POST to uploadSDS.
UploadPost(t) ==
  LET tk == task[t] IN
  /\ tk.op = "upload_file"
  /\ tk.pc = "post"
  /\ \E response \in RaceUploadResponses \cup {TransportError} :
       LET answered == [tk EXCEPT !.got = response] IN
       IF response = TransportError THEN Stepped(t, Done(answered, "Upload error"))
       ELSE Stepped(t, [answered EXCEPT !.pc = "write"])
  /\ UNCHANGED <<clock, plHistory, sess, pdf, pl, nextHandle, nextPdf, nextPl, disk,
                 nextFile, last>>

\* main.py upload_file, the record written from the answer.
UploadedFileRecord(session_id, request_id, department_id, response) ==
  IF response.status_code = 200 THEN
    [session_id |-> session_id, request_id |-> request_id,
     location_id |-> department_id, status |-> "uploaded",
     file |-> "a.pdf", data |-> response.doc]
  ELSE
    [session_id |-> session_id, request_id |-> request_id,
     location_id |-> department_id, status |-> "error",
     status_code |-> response.status_code,
     error_message |-> response.text, file |-> "a.pdf"]

UploadWrite(t) ==
  LET tk == task[t] IN
  /\ tk.op = "upload_file"
  /\ tk.pc = "write"
  /\ pdf' = [pdf EXCEPT ![tk.r] = UploadedFileRecord(tk.h, tk.r, tk.arg, tk.got)]
  /\ Stepped(t, Done(tk, IF tk.got.status_code = 200 THEN "Successfully uploaded"
                         ELSE "Upload failed"))
  /\ UNCHANGED <<clock, plHistory, sess, pl, nextHandle, nextPdf, nextPl, disk, nextFile, last>>

\* The state after get_login_url, a login with key k1 that the identity
\* endpoint answered 200 and add_sds_by_uploading_sds_pdf_file for location
\* L1: one session, logged in, and one upload record, inited.
RaceStart ==
  /\ sess = [h \in AnyHandle |->
               IF h = 1 THEN LoggedInRecord("k1", ProfileOf("k1")) ELSE NoRec]
  /\ pdf = [r \in PdfIds |->
              IF r = 1 THEN [session_id |-> 1, request_id |-> 1,
                             location_id |-> "L1", status |-> "inited"]
              ELSE NoRec]
  /\ pl = [r \in PlIds |-> NoRec]
  /\ nextHandle = 2
  /\ nextPdf = 2
  /\ nextPl = 1
  /\ disk = [f \in FilePaths |-> "absent"]
  /\ nextFile = 1
  /\ last = Ran("add_sds_by_uploading_sds_pdf_file", 1, 1, "L1", NoRec,
                [status |-> "success", code |-> "OK",
                 data |-> [session_handle |-> 1, request_id |-> 1,
                           upload_url |-> UploadUrl(1, "L1", 1)],
                 instruction |-> "upload steps", trace_id |-> 1],
                NoCalls, NoRec, <<"sds_mcp", "upload_sds_pdf">>)
  /\ clock = [now |-> 0, expires |-> [h \in AnyHandle |-> 0],
              login |-> [h \in AnyHandle |-> 0]]
  /\ plHistory = [r \in PlIds |-> NoHistory]
  /\ task = [t \in Tasks |-> Idle]

InitRace == RaceStart

\* Polls and form submissions served step by step.
NextRace ==
  \/ \E t \in Tasks, h \in Minted, r \in PdfIds :
       BeginTool(t, "check_upload_sds_pdf_status", h, r)
  \/ \E t \in Tasks : WriteBack(t)
  \/ \E t \in Tasks : PollRead(t)
  \/ \E t \in Tasks : PollReset(t)
  \/ \E t \in Tasks : PollRequest(t)
  \/ \E t \in Tasks : PollRejected(t)
  \/ \E t \in Tasks : PollWrite(t)
  \/ \E t \in Tasks, h \in Minted, r \in PdfIds : UploadBegin(t, h, r, "L1")
  \/ \E t \in Tasks : UploadRead(t)
  \/ \E t \in Tasks : UploadPost(t)
  \/ \E t \in Tasks : UploadWrite(t)

SpecRace == InitRace /\ [][NextRace]_vars

\* ------------------------------------------------------------- properties
\* The tools that validate the session before anything else.
ToolOps == {"check_auth_status", "get_limits", "get_setup_onboarding_step",
            "add_sds_by_uploading_sds_pdf_file",
            "add_sds_by_url", "check_upload_sds_pdf_status",
            "upload_product_list_excel_file", "validate_upload_product_list_excel_data",
            "process_upload_product_list_excel_data",
            "check_upload_product_list_excel_data_status"}

\* The poll ran last, with a valid session, and found a record it neither
\* polls upstream nor answers from the cache (status inited or error).
C1Case ==
  /\ last.op = "check_upload_sds_pdf_status"
  /\ Present(last.pre)
  /\ last.pre["status"] \notin {"uploaded", "extracting", "finished"}

C1RecordReset ==
  LET now == PdfRec(last.h, last.r) IN
  /\ Present(now)
  /\ now["status"] = "inited"
  /\ now["request_id"] = last.pre["request_id"]
  /\ Get(now, "location_id") = Get(last.pre, "location_id")

C1FreshUrl ==
  /\ Has(last.resp, "data")
  /\ Has(last.resp.data, "upload_url")
  /\ last.resp.data["upload_url"] = UploadUrl(last.h, Get(last.pre, "location_id"), last.r)

\* C1 as stated: a poll of an inited or error record leaves the record inited
\* with the same request_id and location_id, answers UPLOAD_ERROR and hands
\* out the upload URL of the same handle, location and request id.
C1Original ==
  C1Case => C1RecordReset /\ last.resp.code = "UPLOAD_ERROR" /\ C1FreshUrl

\* C1, amended: the record is left inited with the same request_id and
\* location_id and the answer is UPLOAD_ERROR; the upload URL is handed out
\* when the record's location_id is non-empty, and when it is empty the answer
\* is "Not found location" without a URL and the record is not written.
C1 ==
  C1Case =>
    /\ C1RecordReset
    /\ last.resp.code = "UPLOAD_ERROR"
    /\ IF TruthyS(last.pre, "location_id")
         THEN C1FreshUrl /\ PdfRec(last.h, last.r) = reset_upload_session(last.h, last.r, last.pre["location_id"])
         ELSE /\ ~Has(last.resp.data, "upload_url")
              /\ PdfRec(last.h, last.r) = last.pre
              /\ "upload_sds_pdf" \notin {last.writes[i] : i \in DOMAIN last.writes}

\* A failed file transfer was polled: the error record is inited again and
\* the answer carries the URL.
C1Witness ==
  /\ C1Case
  /\ last.pre["status"] = "error"
  /\ PdfRec(last.h, last.r)["status"] = "inited"
  /\ C1FreshUrl

\* An inited record without a location was polled.
C1WitnessNoLocation ==
  /\ C1Case
  /\ ~TruthyS(last.pre, "location_id")
  /\ last.resp.data["error_message"] = "Not found location"

\* C2: a poll that finds the record finished sends no backend request and
\* does not write the upload record, on every repetition.
C2 ==
  (/\ last.op = "check_upload_sds_pdf_status"
   /\ Present(last.pre)
   /\ last.pre["status"] = "finished")
  => /\ last.calls = NoCalls
     /\ "upload_sds_pdf" \notin {last.writes[i] : i \in DOMAIN last.writes}
     /\ PdfRec(last.h, last.r) = last.pre
     /\ last.resp.code = "UPLOAD_FINISHED"

\* A finished record polled for at least the second time running.
C2Witness ==
  /\ last.op = "check_upload_sds_pdf_status"
  /\ Present(last.pre)
  /\ last.pre["status"] = "finished"
  /\ Present(last.before)
  /\ last.before.resp.code = "UPLOAD_FINISHED"
  /\ last.calls = NoCalls

\* The poll ran twice in a row for the same handle and request id, and the
\* first of the two got progress 100 from the backend.
C3Case ==
  /\ last.op = "check_upload_sds_pdf_status"
  /\ Present(last.before)
  /\ Len(last.before.calls) = 1
  /\ Present(last.before.got)
  /\ last.before.got.status_code = 200
  /\ ValidExtraction(last.before.got.doc)
  /\ last.before.got.doc["progress"] = 100

\* C3: the second of two polls in a row, the first of which saw progress 100,
\* returns the payload the first returned and sends no backend request.
C3 ==
  C3Case =>
    /\ last.calls = NoCalls
    /\ last.resp.status = "success"
    /\ last.resp.data = last.before.resp.data
    /\ last.resp.data["progress"] = 100

C3Witness ==
  /\ C3Case
  /\ last.resp.code = "UPLOAD_FINISHED"
  /\ Has(last.resp.data, "imported_info")
  /\ last.resp.data = last.before.resp.data

\* A tool ran last with a valid session and upstream answered that the API
\* key does not exist.
C4Case ==
  /\ last.op \in ToolOps
  /\ Len(last.calls) = 1
  /\ Present(last.got)
  /\ last.got.json
  /\ Get(last.got.doc, "error_code") = "NOT_EXISTED_API_KEY"

\* C4 as stated, its first half: once a tool call has received the code
\* NOT_EXISTED_API_KEY for a handle that has a record, the record is
\* logged_in=false, login_error=true, error_message=<upstream message>.
C4Original ==
  C4Case =>
    /\ Present(sess[last.h])
    /\ sess[last.h]["logged_in"] = FALSE
    /\ Get(sess[last.h], "login_error") = TRUE
    /\ Get(sess[last.h], "error_message") = Get(last.got.doc, "error_message")

\* The rejection that is classified: the body carries a message too.
C4Invalidated ==
  /\ C4Case
  /\ last.resp.code = "API_KEY_INVALID"
  /\ sess[last.h] = [logged_in |-> FALSE, login_error |-> TRUE, error_message |-> "m1"]

\* The rejection that is not: the body has the code and no message, the tool
\* answers API_ERROR and the record keeps logged_in=true and the key.
C4NotInvalidated ==
  /\ C4Case
  /\ last.resp.code = "API_ERROR"
  /\ TruthyB(sess[last.h], "logged_in")
  /\ Has(sess[last.h], "api_key")

\* login ran and the identity endpoint rejected the credential with the code
\* NOT_EXISTED_API_KEY; check_auth_status then validated the same handle.
C5Case ==
  /\ last.op = "check_auth_status"
  /\ Present(last.before)
  /\ last.before.got.status_code # 200
  /\ last.before.got.json
  /\ Get(last.before.got.doc, "error_code") = "NOT_EXISTED_API_KEY"

\* C5 as stated: after a login rejected with the key-not-found code, validate
\* of the handle answers an error whose message is the upstream error
\* message, and the session key still resolves.
C5Original ==
  C5Case =>
    /\ last.resp.status = "error"
    /\ last.resp.data.error_message = last.before.got.doc["error_message"]
    /\ Present(sess[last.h])

\* What the code does instead: the message is the raw response body.
C5RawBody ==
  /\ C5Case
  /\ last.resp.code = "AUTHENTICATION_ERROR"
  /\ last.resp.data.error_message = last.before.got.text
  /\ last.resp.data.error_message # last.before.got.doc["error_message"]
  /\ Present(sess[last.h])

\* The record get_login_url writes for a new handle.
C6Pending(h) == sess[h] = [logged_in |-> FALSE, login_error |-> FALSE]

\* C6 as stated, its first half: validate of a minted handle that has not
\* logged in returns expired=false.
C6Original ==
  \A h \in Minted : C6Pending(h) => validate_session(h).expired = FALSE

\* validate of a pending handle: the flag is set, the response is
\* AUTHENTICATION_ERROR and nothing is written.
C6Validate ==
  \A h \in Minted : C6Pending(h) =>
    /\ validate_session(h).expired = TRUE
    /\ validate_session(h).info.code = "AUTHENTICATION_ERROR"
    /\ validate_session(h).writes = NoWrites

\* A tool called with a pending handle answers what validate returns, sends
\* no backend request and leaves the session record alone.
C6ShortCircuit ==
  \A h \in Minted :
    (C6Pending(h) /\ last'.op \in ToolOps /\ last'.h = h) =>
      /\ last'.resp = validate_session(h).info
      /\ last'.calls = NoCalls
      /\ sess' = sess

\* C6, amended: validate of a minted handle that has not logged in returns
\* the flag set together with an AUTHENTICATION_ERROR response (not
\* SESSION_EXPIRED) and writes nothing; a tool called with that handle answers
\* that response and sends no backend request.
C6 == [][C6Validate /\ C6ShortCircuit]_vars

\* A tool was called with a minted handle that has not logged in.
C6Witness ==
  /\ last.op = "get_limits"
  /\ last.h \in Minted
  /\ C6Pending(last.h)
  /\ last.resp.code = "AUTHENTICATION_ERROR"
  /\ last.calls = NoCalls

\* login ran and the identity endpoint accepted the credential;
\* check_auth_status then validated the same handle.
C7Case ==
  /\ last.op = "check_auth_status"
  /\ Present(last.before)
  /\ last.before.got.status_code = 200

\* C7 as stated: login then validate returns logged_in=true with the profile
\* fields as the identity response gave them.
C7Original ==
  C7Case =>
    /\ last.resp.code = "OK"
    /\ TruthyB(sess[last.h], "logged_in")
    /\ last.resp.data.user.id = Get(last.before.got.doc, "id")
    /\ last.resp.data.user.email = Get(last.before.got.doc, "email")
    /\ last.resp.data.user.language = Get(last.before.got.doc, "language")
    /\ last.resp.data.user.country = Get(last.before.got.doc, "country")
    /\ last.resp.data.user.phone_number = Get(last.before.got.doc, "phone_number")
    /\ last.resp.data.user.customer = Get(last.before.got.doc, "customer")

\* What the code does instead: the id is stored as user_id and read as id.
C7IdLost ==
  /\ C7Case
  /\ last.resp.code = "OK"
  /\ sess[last.h]["user_id"] = last.before.got.doc["id"]
  /\ last.resp.data.user.id = Null

\* C8: every session record in the cache holds an api_key exactly when its
\* logged_in field is true.
C8 ==
  \A h \in AnyHandle :
    Present(sess[h]) => (TruthyS(sess[h], "api_key") <=> TruthyB(sess[h], "logged_in"))

\* A logged-in record was invalidated by a tool call: the key is gone.
C8Witness ==
  /\ last.op = "get_limits"
  /\ last.resp.code = "API_KEY_INVALID"
  /\ Present(sess[last.h])
  /\ ~Has(sess[last.h], "api_key")
  /\ ~TruthyB(sess[last.h], "logged_in")

\* validate ran last, with a valid session, and found a record.
C9Case ==
  /\ last.op = "validate_upload_product_list_excel_data"
  /\ Present(last.pre)

C9Now == PlRec(last.h, last.r)

\* The record is inited again and the answer carries the upload URL.
C9Reset ==
  /\ C9Now = [session_id |-> last.h, request_id |-> last.r, status |-> "inited"]
  /\ last.resp.code = "UPLOAD_ERROR"
  /\ last.resp.data.upload_url = PlUploadUrl(last.h, last.r)

\* The record is left as it was and the answer names the next step.
C9ShortCircuit ==
  /\ C9Now = last.pre
  /\ last.resp.code \in {"UPLOAD_PROCESSING", "UPLOAD_PROCESSED", "UPLOAD_EXTRACTING"}
  /\ last.calls = NoCalls

\* The record is validated, or reset because the upload left nothing to validate.
C9Validated ==
  \/ /\ C9Now = Merge(last.pre, [status |-> "validated"])
     /\ last.resp.code = "OK"
     /\ last.resp.data.extracted_columns = last.pre["extracted_columns"]
  \/ /\ \/ ~TruthyN(last.pre, "total_row")
        \/ ~TruthyD(last.pre, "extracted_columns")
        \/ ~TruthyS(last.pre, "file_path")
     /\ C9Reset

C9WitnessReset == C9Case /\ last.pre["status"] = "error" /\ C9Reset
C9WitnessProcessing == C9Case /\ last.pre["status"] = "processing" /\ C9ShortCircuit
C9WitnessExtracting == C9Case /\ last.pre["status"] = "extracting" /\ C9ShortCircuit
C9WitnessNoId ==
  /\ C9Case
  /\ last.pre["status"] = "extracting"
  /\ ~TruthyS(last.pre, "product_list_id")
  /\ C9Now["status"] = "validated"

\* process ran last, with a valid session, and found a record whose status is
\* none of validated, processing, processed, extracting.
C10Case ==
  /\ last.op = "process_upload_product_list_excel_data"
  /\ Present(last.pre)
  /\ last.pre["status"] \notin {"validated", "processing", "processed", "extracting"}

\* C10 as stated: the record is reset to inited and the answer carries a
\* fresh upload URL.
C10Original ==
  C10Case =>
    /\ PlRec(last.h, last.r)["status"] = "inited"
    /\ Has(last.resp, "data")
    /\ Has(last.resp.data, "upload_url")

\* C10, amended: the record is left exactly as it was (no reset), no backend
\* request is sent, no temp file is touched, and the answer is
\* UPLOAD_VALIDATION_ERROR without an upload URL, telling the caller to call
\* validate again.
C10 ==
  C10Case =>
    /\ PlRec(last.h, last.r) = last.pre
    /\ last.calls = NoCalls
    /\ last.trail = <<>>
    /\ "upload_product_list" \notin {last.writes[i] : i \in DOMAIN last.writes}
    /\ last.resp.code = "UPLOAD_VALIDATION_ERROR"
    /\ ~Has(last.resp.data, "upload_url")
    /\ last.resp.instruction = "Call validate_upload_product_list_excel_data tool again"

\* process was called with a mapping on a record that was uploaded and not validated.
C10Witness ==
  /\ C10Case
  /\ last.pre["status"] = "uploaded"
  /\ DOMAIN last.arg # {}
  /\ PlRec(last.h, last.r)["status"] = "uploaded"
  /\ last.resp.data.error_message = "Not validated"

\* process was called on a record that holds no file (inited).
C10WitnessInited ==
  /\ C10Case
  /\ last.pre["status"] = "inited"
  /\ last.resp.data.error_message = "Validation error"

\* validate or process ran last, with a valid session, on a record whose last
\* submission the backend accepted (status extracting is written by the
\* accepting branch only, and a new file upload overwrites it).
C11Case ==
  /\ last.op \in {"validate_upload_product_list_excel_data",
                  "process_upload_product_list_excel_data"}
  /\ Present(last.pre)
  /\ last.pre["status"] = "extracting"

\* C11 as stated: after the backend accepted the submission, validate and
\* process send no further submission and answer with the same product_list_id.
C11Original ==
  C11Case =>
    /\ last.calls = NoCalls
    /\ Has(last.resp, "data")
    /\ Has(last.resp.data, "product_list_id")
    /\ TruthyS(last.resp.data, "product_list_id")
    /\ PlRec(last.h, last.r) = last.pre

\* The accepted submission was given an id: the later call is answered from
\* the record.
C11Stable ==
  /\ C11Case
  /\ last.op = "process_upload_product_list_excel_data"
  /\ last.resp.code = "UPLOAD_EXTRACTING"
  /\ last.resp.data.product_list_id = "pl1"
  /\ last.calls = NoCalls
  /\ PlRec(last.h, last.r) = last.pre

\* The accepted submission was given no id: the later process call finds the
\* temp file gone, resets the record and asks for a new upload.
C11Lost ==
  /\ C11Case
  /\ last.op = "process_upload_product_list_excel_data"
  /\ ~TruthyS(last.pre, "product_list_id")
  /\ last.resp.code = "UPLOAD_PROCESS_ERROR"
  /\ PlRec(last.h, last.r)["status"] = "inited"

\* process ran last from status validated and the backend accepted the
\* submission (200 with a JSON body).
C12Case ==
  /\ last.op = "process_upload_product_list_excel_data"
  /\ Present(last.pre)
  /\ last.pre["status"] = "validated"
  /\ Len(last.calls) = 1
  /\ last.got.status_code = 200
  /\ last.got.json

\* C12: a process call from validated that the backend accepts writes
\* processing and later processed, with extracted_data in the record, before
\* the request is sent; afterwards the record is extracting with the
\* product_list_id of the answer, which is the id returned to the caller.
C12 ==
  C12Case =>
    /\ last.trail = <<"processing", "validated", "processed", "request", "extracting">>
    /\ last.sent["status"] = "processed"
    /\ last.sent["extracted_data"] = last.calls[1].extracted
    /\ PlRec(last.h, last.r)["status"] = "extracting"
    /\ Has(PlRec(last.h, last.r), "product_list_id")
    /\ Get(PlRec(last.h, last.r), "product_list_id") = Get(last.got.doc, "product_list_id")
    /\ last.resp.data.product_list_id = Get(last.got.doc, "product_list_id")

\* The backend assigned the id pl1: it is in the record and in the answer.
C12Witness ==
  /\ C12Case
  /\ Get(last.got.doc, "product_list_id") = "pl1"
  /\ Get(PlRec(last.h, last.r), "product_list_id") = "pl1"
  /\ last.resp.data.product_list_id = "pl1"
  /\ last.trail[1] = "processing"

\* process ran last, with a valid session, and found a record.
C13Case ==
  /\ last.op = "process_upload_product_list_excel_data"
  /\ Present(last.pre)

\* C13 as stated: no process call ends with the record in status processing;
\* a call that wrote processing and then failed locally has reset the record
\* to inited and answers UPLOAD_PROCESS_ERROR with the upload URL.
C13Original ==
  C13Case =>
    /\ Get(PlRec(last.h, last.r), "status") # "processing"
    /\ (Len(last.trail) > 0 /\ last.trail[1] = "processing" /\ last.calls = NoCalls) =>
         /\ PlRec(last.h, last.r) = [session_id |-> last.h, request_id |-> last.r,
                                     status |-> "inited"]
         /\ last.resp.code = "UPLOAD_PROCESS_ERROR"
         /\ last.resp.data.upload_url = PlUploadUrl(last.h, last.r)

\* A mapping with a list value: the call ends in the TypeError and the record
\* is left in status processing with that mapping.
C13Stuck ==
  /\ C13Case
  /\ last.resp = Unhandled
  /\ PlRec(last.h, last.r)["status"] = "processing"
  /\ PlRec(last.h, last.r)["mapped_data"] = last.arg

\* A spreadsheet that cannot be serialised: the record is reset.
C13Reset ==
  /\ C13Case
  /\ last.trail = <<"processing", "validated", "inited">>
  /\ last.resp.code = "UPLOAD_PROCESS_ERROR"
  /\ PlRec(last.h, last.r)["status"] = "inited"

\* The projection ran on a sheet with the columns PRODUCT NAME and SUPPLIER OF
\* SDS (in any letter case) and one data row with both cells filled.
C14Case ==
  /\ last.op = "extract"
  /\ DOMAIN last.pre \in { {"PRODUCT NAME", "SUPPLIER OF SDS"},
                           {"Product Name", "Supplier of SDS"} }
  /\ \A k \in DOMAIN last.pre : ~Omitted(last.pre[k])

C15Absent(h, r) ==
  /\ ~validate_session(h).expired
  /\ ~Present(PdfRec(h, r))

\* C15: a PDF status check that finds no record for its request id answers
\* UPLOAD_SESSION_EXPIRED with the instruction to start a new upload, sends no
\* backend request and creates no record.
C15 ==
  [][\A h \in Minted, r \in PdfIds :
       (/\ C15Absent(h, r)
        /\ last'.op = "check_upload_sds_pdf_status"
        /\ last'.h = h
        /\ last'.r = r)
       => /\ last'.resp.status = "error"
          /\ last'.resp.code = "UPLOAD_SESSION_EXPIRED"
          /\ last'.resp.instruction = "restart upload"
          /\ last'.calls = NoCalls
          /\ pdf' = pdf
          /\ ~Present(PdfRec(h, r))']_vars

\* A status check ran for a request id whose record had been created and had
\* expired, with the session still logged in.
C15Witness ==
  /\ last.op = "check_upload_sds_pdf_status"
  /\ last.pre = NoRec
  /\ last.resp.code = "UPLOAD_SESSION_EXPIRED"
  /\ last.calls = NoCalls
  /\ ~validate_session(last.h).expired
  /\ last.r < nextPdf
  /\ ~Present(pdf[last.r])

\* The poll found the record uploaded or extracting and the backend answered
\* 200 with a well-formed extraction status.
C16Case ==
  /\ last.op = "check_upload_sds_pdf_status"
  /\ Present(last.pre)
  /\ last.pre["status"] \in {"uploaded", "extracting"}
  /\ Len(last.calls) = 1
  /\ Present(last.got)
  /\ last.got # TransportError
  /\ last.got.status_code = 200
  /\ ValidExtraction(last.got.doc)

\* The payload and the progress of the answer are stored in the record, and
\* the rest of the record is kept.
C16Persisted ==
  /\ PdfRec(last.h, last.r)["data"] = model_dump(last.got.doc)
  /\ PdfRec(last.h, last.r)["progress"] = last.got.doc["progress"]
  /\ PdfRec(last.h, last.r)["location_id"] = last.pre["location_id"]

C16WitnessExtracting ==
  /\ C16Case
  /\ last.got.doc["progress"] = 40
  /\ PdfRec(last.h, last.r)["status"] = "extracting"

\* A poll got a progress above 100 and left the record finished.
C16WitnessAbove ==
  /\ C16Case
  /\ last.got.doc["progress"] > 100
  /\ PdfRec(last.h, last.r)["status"] = "finished"

\* The record of request id r holds status finished.
C17Finished(r) == Present(pdf[r]) /\ pdf[r]["status"] = "finished"

\* C17 as stated: once a PDF upload record is finished, every tool call and
\* every upload-form submission leaves it finished until it expires.
C17Original ==
  [][\A r \in PdfIds :
       C17Finished(r) => (~Present(pdf'[r]) \/ pdf'[r]["status"] = "finished")]_vars

\* The tools do keep a finished record as it is.
C17Tools ==
  [][\A r \in PdfIds :
       (C17Finished(r) /\ last'.op \in ToolOps) => pdf'[r] = pdf[r]]_vars

\* The upload form was submitted for a finished record and the backend took
\* the file: the record is back at uploaded.
C17Overwritten ==
  /\ last.op = "upload_file"
  /\ Present(last.pre)
  /\ last.pre["status"] = "finished"
  /\ PdfRec(last.h, last.r)["status"] = "uploaded"

\* The upload form was submitted for a finished record and the backend
\* refused the file: the record is at error.
C17Failed ==
  /\ last.op = "upload_file"
  /\ Present(last.pre)
  /\ last.pre["status"] = "finished"
  /\ PdfRec(last.h, last.r)["status"] = "error"

\* A tool sent a backend request and the transport failed (timeout, DNS,
\* refused connection).
C18Case ==
  /\ last.op \in ToolOps
  /\ Len(last.calls) = 1
  /\ last.got = TransportError

\* C18 as stated: every tool, the import submission of process included,
\* answers a transport failure with CONNECTION_ERROR, never with an
\* authentication failure, and leaves the session authenticated.
C18Original ==
  C18Case =>
    /\ last.resp.code = "CONNECTION_ERROR"
    /\ TruthyB(sess[last.h], "logged_in")

\* What does hold for every tool: the answer is not an authentication failure
\* and the session stays authenticated; every tool but process answers
\* CONNECTION_ERROR.
C18Kept ==
  C18Case =>
    /\ last.resp.code \notin {"AUTHENTICATION_ERROR", "SESSION_EXPIRED", "PERMISSION_DENIED"}
    /\ TruthyB(sess[last.h], "logged_in")
    /\ last.op # "process_upload_product_list_excel_data" =>
         last.resp.code = "CONNECTION_ERROR"

\* The import submission of process failed in transport: the answer is
\* UPLOAD_PROCESS_ERROR and the validated record is back at inited.
C18Reset ==
  /\ C18Case
  /\ last.op = "process_upload_product_list_excel_data"
  /\ last.pre["status"] = "validated"
  /\ last.resp.code = "UPLOAD_PROCESS_ERROR"
  /\ PlRec(last.h, last.r)["status"] = "inited"

\* The import status poll failed in transport and answered CONNECTION_ERROR.
C18Connection ==
  /\ C18Case
  /\ last.op = "check_upload_product_list_excel_data_status"
  /\ last.resp.code = "CONNECTION_ERROR"

\* A tool got a non-200 answer whose body is not JSON, lacks the error code,
\* or carries a code that is not one of the recognized ones.
C19Case ==
  /\ last.op \in ToolOps
  /\ Len(last.calls) = 1
  /\ Present(last.got)
  /\ last.got.status_code \in ErrorStatusCodes
  /\ \/ ~last.got.json
     \/ ~TruthyS(last.got.doc, "error_code")
     \/ Get(last.got.doc, "error_code") \notin AuthorizationCodes \cup {"NOT_EXISTED_API_KEY"}

\* C19 as stated: every such answer is returned as SERVER_ERROR carrying the
\* response status and text.
C19Original ==
  C19Case =>
    /\ last.resp.code = "SERVER_ERROR"
    /\ last.resp.data.status_code = last.got.status_code
    /\ last.resp.data.error_message = last.got.text

\* C19, amended: a body that is not JSON is returned as SERVER_ERROR carrying
\* the response status and text; a JSON body that lacks the error code or
\* carries an unrecognized one is returned as API_ERROR carrying the response
\* status and the upstream error_message, or the raw text when the message or
\* the code is missing.  The session record is left as it was.
C19 ==
  C19Case =>
    /\ last.resp.status = "error"
    /\ last.resp.data.status_code = last.got.status_code
    /\ ~last.got.json =>
         /\ last.resp.code = "SERVER_ERROR"
         /\ last.resp.data.error_message = last.got.text
    /\ last.got.json =>
         /\ last.resp.code = "API_ERROR"
         /\ last.resp.data.error_message =
              IF TruthyS(last.got.doc, "error_message") /\ TruthyS(last.got.doc, "error_code")
                THEN last.got.doc["error_message"]
                ELSE last.got.text
    /\ TruthyB(sess[last.h], "logged_in")

\* A tool got a JSON body with an unrecognized code and answered API_ERROR
\* with the upstream message.
C19Witness ==
  /\ C19Case
  /\ last.got.json
  /\ Get(last.got.doc, "error_code") = "OTHER"
  /\ last.resp.code = "API_ERROR"
  /\ last.resp.data.error_message = "m3"

\* A tool got a body that is not JSON and answered SERVER_ERROR.
C19WitnessNotJson ==
  /\ C19Case
  /\ ~last.got.json
  /\ last.resp.code = "SERVER_ERROR"

\* A tool got a JSON body without an error code and answered API_ERROR with
\* the raw text.
C19WitnessNoCode ==
  /\ C19Case
  /\ last.got.json
  /\ TruthyS(last.got.doc, "error_message")
  /\ ~TruthyS(last.got.doc, "error_code")
  /\ last.resp.code = "API_ERROR"
  /\ last.resp.data.error_message = last.got.text

\* A tool got a non-200 answer whose JSON body carries the key-does-not-exist
\* code or one of the recognized authorization codes.
C20Case ==
  /\ last.op \in ToolOps
  /\ Len(last.calls) = 1
  /\ Present(last.got)
  /\ last.got.status_code \in ErrorStatusCodes
  /\ last.got.json
  /\ Get(last.got.doc, "error_code") \in AuthorizationCodes \cup {"NOT_EXISTED_API_KEY"}

\* C20 as stated: whatever the status code, a recognized authorization code
\* is classified authorization-denied and the key-does-not-exist code
\* credential-invalid.
C20Original ==
  C20Case =>
    last.resp.code =
      IF Get(last.got.doc, "error_code") = "NOT_EXISTED_API_KEY"
        THEN "API_KEY_INVALID" ELSE "AUTHORIZATION_ERROR"

\* What does hold: when the body also carries a message, the classification
\* follows the error code under every status code.
C20WithMessage ==
  (C20Case /\ TruthyS(last.got.doc, "error_message")) =>
    /\ last.resp.code =
         IF Get(last.got.doc, "error_code") = "NOT_EXISTED_API_KEY"
           THEN "API_KEY_INVALID" ELSE "AUTHORIZATION_ERROR"
    /\ last.resp.data.status_code = last.got.status_code
    /\ last.resp.data.error_code = last.got.doc["error_code"]

\* A 500 answer with the key-does-not-exist code and no message was returned
\* as API_ERROR.
C20Unclassified ==
  /\ C20Case
  /\ last.got.status_code = 500
  /\ Get(last.got.doc, "error_code") = "NOT_EXISTED_API_KEY"
  /\ ~TruthyS(last.got.doc, "error_message")
  /\ last.resp.code = "API_ERROR"

\* A 500 answer with an authorization code and a message was classified
\* authorization-denied.
C20Classified ==
  /\ C20Case
  /\ last.got.status_code = 500
  /\ Get(last.got.doc, "error_code") = "API_KEY_NOT_ACTIVE"
  /\ last.resp.code = "AUTHORIZATION_ERROR"

\* C21: when a tool receives a non-200 answer carrying a recognized
\* authorization code and a message, it answers AUTHORIZATION_ERROR and the
\* session record of the handle is the same as before the call: logged_in is
\* true, the api_key and the profile fields are unchanged.
C21 ==
  [][\A h \in Callers :
       (/\ last'.op \in ToolOps
        /\ last'.h = h
        /\ Len(last'.calls) = 1
        /\ Present(last'.got)
        /\ last'.got.status_code \in ErrorStatusCodes
        /\ last'.got.json
        /\ Get(last'.got.doc, "error_code") \in AuthorizationCodes
        /\ TruthyS(last'.got.doc, "error_message"))
       => /\ last'.resp.code = "AUTHORIZATION_ERROR"
          /\ last'.resp.instruction = "contact admin"
          /\ sess'[h] = sess[h]
          /\ TruthyB(sess'[h], "logged_in")
          /\ Has(sess'[h], "api_key")]_vars

\* A tool answered AUTHORIZATION_ERROR and the session is still the logged-in
\* record of the key's owner.
C21Witness ==
  /\ last.op = "get_limits"
  /\ last.resp.code = "AUTHORIZATION_ERROR"
  /\ Get(last.got.doc, "error_code") = "API_KEY_NOT_ACTIVE"
  /\ TruthyB(sess[last.h], "logged_in")
  /\ Get(sess[last.h], "api_key") \in Credentials
  /\ Has(sess[last.h], "email")

\* The session record of h is absent or not logged in.
C22Invalid(h) == ~Present(sess[h]) \/ ~TruthyB(sess[h], "logged_in")

\* C22: a tool called with a handle whose session record is absent or not
\* logged in returns its session error (SESSION_EXPIRED for an absent record,
\* AUTHENTICATION_ERROR for one that is not logged in), sends no backend
\* request and writes no upload record and no session record.
C22 ==
  [][\A h \in Callers :
       (C22Invalid(h) /\ last'.op \in ToolOps /\ last'.h = h)
       => /\ last'.resp.status = "error"
          /\ last'.resp.code =
               IF Present(sess[h]) THEN "AUTHENTICATION_ERROR" ELSE "SESSION_EXPIRED"
          /\ last'.calls = NoCalls
          /\ last'.writes = NoWrites
          /\ pdf' = pdf
          /\ pl' = pl
          /\ sess' = sess
          /\ nextPdf' = nextPdf
          /\ nextPl' = nextPl]_vars

\* add_sds_by_url was called after the session had expired: no request was
\* sent and no record was seeded.
C22Witness ==
  /\ last.op = "add_sds_by_url"
  /\ ~Present(sess[last.h])
  /\ last.resp.code = "SESSION_EXPIRED"
  /\ last.calls = NoCalls
  /\ nextPdf = 1

\* The status poll was called with a handle that is not logged in, while an
\* upload record of that handle exists.
C22WitnessPending ==
  /\ last.op = "check_upload_sds_pdf_status"
  /\ Present(sess[last.h])
  /\ last.resp.code = "AUTHENTICATION_ERROR"
  /\ last.calls = NoCalls
  /\ Present(PdfRec(last.h, last.r))

\* C23: get_login_url called with a handle whose record is logged in mints
\* no handle, writes nothing to the cache and returns SESSION_REUSED with the
\* same handle and no login URL.
C23 ==
  [][\A h \in Callers :
       (/\ Present(sess[h])
        /\ TruthyB(sess[h], "logged_in")
        /\ last'.op = "get_login_url"
        /\ last'.h = h)
       => /\ last'.resp.status = "success"
          /\ last'.resp.code = "SESSION_REUSED"
          /\ last'.resp.data.session_handle = h
          /\ ~Has(last'.resp.data, "login_url")
          /\ last'.resp.trace_id = h
          /\ last'.writes = NoWrites
          /\ last'.calls = NoCalls
          /\ sess' = sess
          /\ nextHandle' = nextHandle]_vars

\* get_login_url ran with the handle of a logged-in session.
C23Witness ==
  /\ last.op = "get_login_url"
  /\ Present(sess[last.h])
  /\ TruthyB(sess[last.h], "logged_in")
  /\ last.resp.code = "SESSION_REUSED"
  /\ last.resp.data = [session_handle |-> last.h]

\* The step is a process call that sent the import submission and got 200.
C24Accepted ==
  /\ last'.op = "process_upload_product_list_excel_data"
  /\ Len(last'.calls) = 1
  /\ last'.got.status_code = 200

\* C24 as stated, the part on reset flows: a process call that ends with the
\* record reset (UPLOAD_PROCESS_ERROR) has not deleted the temp file.
C24Original ==
  [][(/\ last'.op = "process_upload_product_list_excel_data"
      /\ last'.resp.code = "UPLOAD_PROCESS_ERROR")
     => disk' = disk]_vars

\* C24, amended: a temp file leaves the disk only in a process call whose
\* submission the backend answered with 200, and it is the file of that
\* call's record; every such call deletes it at once, before the body of the
\* answer is read (so a 200 answer whose body is not JSON deletes the file
\* and then resets the flow); a process call that finds the file gone sends
\* no request and deletes nothing.
C24 ==
  [][/\ \A f \in FilePaths :
          (disk[f] # "absent" /\ disk'[f] = "absent")
          => (C24Accepted /\ Get(last'.pre, "file_path") = f)
     /\ C24Accepted =>
          /\ disk[last'.pre["file_path"]] # "absent"
          /\ disk'[last'.pre["file_path"]] = "absent"
     /\ (/\ last'.op = "process_upload_product_list_excel_data"
         /\ Has(last'.pre, "file_path")
         /\ disk[last'.pre["file_path"]] = "absent")
        => (last'.calls = NoCalls /\ disk' = disk)]_vars

\* The backend accepted the submission and the temp file is gone.
C24Witness ==
  /\ last.op = "process_upload_product_list_excel_data"
  /\ Len(last.calls) = 1
  /\ last.got.status_code = 200
  /\ last.resp.code = "OK"
  /\ disk[last.pre["file_path"]] = "absent"

\* The backend answered 200 with a body that is not JSON: the file is gone
\* and the record is reset.
C24WitnessReset ==
  /\ last.op = "process_upload_product_list_excel_data"
  /\ Len(last.calls) = 1
  /\ last.got.status_code = 200
  /\ last.resp.code = "UPLOAD_PROCESS_ERROR"
  /\ disk[last.pre["file_path"]] = "absent"
  /\ PlRec(last.h, last.r)["status"] = "inited"

\* A later process call found the file gone and was reset without a request.
C24WitnessGone ==
  /\ last.op = "process_upload_product_list_excel_data"
  /\ Has(last.pre, "file_path")
  /\ last.calls = NoCalls
  /\ last.resp.code = "UPLOAD_PROCESS_ERROR"
  /\ last.pre["status"] = "extracting"

\* The response has the envelope: a status of success or error, a code, a
\* trace_id equal to the handle of the call, and an instruction when it is an
\* error.
C25Envelope(resp, h) ==
  /\ resp.status \in {"success", "error"}
  /\ Has(resp, "code")
  /\ Has(resp, "trace_id")
  /\ resp.trace_id = h
  /\ resp.status = "error" => Has(resp, "instruction")

\* C25 as stated: every response a tool returns has the envelope.
C25Original ==
  (last.op \in ToolOps /\ last.resp # Unhandled) => C25Envelope(last.resp, last.h)

\* What does hold: every response of a tool other than the two untraced
\* onboarding steps has the envelope.
C25Others ==
  (/\ last.op \in ToolOps
   /\ last.resp # Unhandled
   /\ ~(last.op = "get_setup_onboarding_step"
        /\ last.arg \in {"products_management", "sds_manager_expert_setup"}
        /\ last.resp.status = "success"))
  => C25Envelope(last.resp, last.h)

\* get_setup_onboarding_step answered a logged-in caller without a trace_id.
C25Untraced ==
  /\ last.op = "get_setup_onboarding_step"
  /\ last.arg = "products_management"
  /\ last.resp.status = "success"
  /\ ~Has(last.resp, "trace_id")

\* get_setup_onboarding_step answered STEP_NOT_FOUND with the envelope.
C25StepNotFound ==
  /\ last.op = "get_setup_onboarding_step"
  /\ last.resp.code = "STEP_NOT_FOUND"
  /\ C25Envelope(last.resp, last.h)

\* validate ran last, with a valid session, on a record in status processing,
\* processed or extracting.
C26Case ==
  /\ last.op = "validate_upload_product_list_excel_data"
  /\ Present(last.pre)
  /\ last.pre["status"] \in {"processing", "processed", "extracting"}

\* C26 as stated: validate on a record in status processing, processed or
\* extracting leaves the record unchanged (never back to validated) and
\* returns a short-circuit instruction naming the next step.
C26Original ==
  C26Case =>
    /\ PlRec(last.h, last.r) = last.pre
    /\ PlRec(last.h, last.r)["status"] # "validated"
    /\ last.resp.status = "success"
    /\ last.resp.code \in {"UPLOAD_PROCESSING", "UPLOAD_PROCESSED", "UPLOAD_EXTRACTING"}

\* What does hold: with a stored mapping (processing) or a product_list_id
\* (extracting), and for processed, the call leaves the record unchanged,
\* sends nothing and names the next step.
C26Idempotent ==
  (/\ C26Case
   /\ last.pre["status"] = "processing" => TruthyD(last.pre, "mapped_data")
   /\ last.pre["status"] = "extracting" => TruthyS(last.pre, "product_list_id"))
  => /\ PlRec(last.h, last.r) = last.pre
     /\ last.calls = NoCalls
     /\ last.resp.code =
          CASE last.pre["status"] = "processing" -> "UPLOAD_PROCESSING"
            [] last.pre["status"] = "processed" -> "UPLOAD_PROCESSED"
            [] OTHER -> "UPLOAD_EXTRACTING"

\* validate found an extracting record without a product_list_id and set it
\* back to validated.
C26Revalidated ==
  /\ C26Case
  /\ last.pre["status"] = "extracting"
  /\ ~TruthyS(last.pre, "product_list_id")
  /\ PlRec(last.h, last.r)["status"] = "validated"
  /\ last.resp.code = "OK"
  /\ disk[last.pre["file_path"]] = "absent"

\* validate found an extracting record with its product_list_id and left it.
C26Kept ==
  /\ C26Case
  /\ last.pre["status"] = "extracting"
  /\ last.resp.code = "UPLOAD_EXTRACTING"
  /\ PlRec(last.h, last.r) = last.pre

\* validate ran last, with a valid session, on a record in status uploaded.
C27Case ==
  /\ last.op = "validate_upload_product_list_excel_data"
  /\ Present(last.pre)
  /\ last.pre["status"] = "uploaded"

\* The record is validated and the answer carries its extracted_columns.
C27Validated ==
  /\ PlRec(last.h, last.r) = Merge(last.pre, [status |-> "validated"])
  /\ last.resp.code = "OK"
  /\ last.resp.data.extracted_columns = last.pre["extracted_columns"]

\* The record is inited again and the answer carries a fresh upload URL.
C27Reset ==
  /\ PlRec(last.h, last.r) = [session_id |-> last.h, request_id |-> last.r, status |-> "inited"]
  /\ last.resp.code = "UPLOAD_ERROR"
  /\ last.resp.data.upload_url = PlUploadUrl(last.h, last.r)

\* C27 as stated: the record is validated exactly when file_path, file_name,
\* total_row and extracted_columns are all present in it, and reset otherwise.
C27Original ==
  C27Case =>
    IF {"file_path", "file_name", "total_row", "extracted_columns"} \subseteq DOMAIN last.pre
      THEN C27Validated ELSE C27Reset

\* C27, amended: the record is validated exactly when file_path and file_name
\* are non-empty, total_row is not zero and extracted_columns is not empty;
\* otherwise (a sheet with a header and no data row, an empty sheet) it is
\* reset to inited and the answer carries a fresh upload URL.
C27 ==
  C27Case =>
    IF /\ Get(last.pre, "file_path") \notin {Null, ""}
       /\ Get(last.pre, "file_name") \notin {Null, ""}
       /\ Has(last.pre, "total_row")
       /\ last.pre["total_row"] # 0
       /\ Has(last.pre, "extracted_columns")
       /\ Len(last.pre["extracted_columns"]) > 0
      THEN C27Validated ELSE C27Reset

\* An uploaded sheet with data rows was validated.
C27Witness ==
  /\ C27Case
  /\ last.pre["total_row"] > 0
  /\ C27Validated

\* An uploaded sheet with a header and no data row was reset.
C27WitnessNoRows ==
  /\ C27Case
  /\ last.pre["total_row"] = 0
  /\ Len(last.pre["extracted_columns"]) > 0
  /\ C27Reset

\* add_sds_by_url ran last with a valid session.
C28Case ==
  /\ last.op = "add_sds_by_url"
  /\ last.resp.code \notin {"SESSION_EXPIRED", "AUTHENTICATION_ERROR"}

\* C28: add_sds_by_url with a valid session sends exactly one request, to the
\* upload-from-URL endpoint; after a 200 answer the record of the new
\* request_id has status uploaded with the target location_id and the returned
\* payload; after a rejection or a transport failure it is left inited with
\* the location_id; and a status poll that finds an inited record does not
\* poll the backend but takes the reset path (UPLOAD_ERROR, record inited).
C28 ==
  /\ C28Case =>
       /\ Len(last.calls) = 1
       /\ last.calls[1].ep = "uploadSDSFromUrl"
       /\ PdfRec(last.h, last.r)["session_id"] = last.h
       /\ PdfRec(last.h, last.r)["request_id"] = last.r
       /\ PdfRec(last.h, last.r)["location_id"] = last.arg
       /\ IF last.got.status_code = 200
            THEN /\ PdfRec(last.h, last.r)["status"] = "uploaded"
                 /\ Has(PdfRec(last.h, last.r), "data")
                 /\ PdfRec(last.h, last.r)["data"] = last.got.doc
            ELSE /\ PdfRec(last.h, last.r)["status"] = "inited"
                 /\ ~Has(PdfRec(last.h, last.r), "data")
                 /\ last.resp.status = "error"
  /\ (/\ last.op = "check_upload_sds_pdf_status"
      /\ Present(last.pre)
      /\ last.pre["status"] = "inited")
     => /\ last.calls = NoCalls
        /\ last.resp.code = "UPLOAD_ERROR"
        /\ PdfRec(last.h, last.r)["status"] = "inited"
        /\ PdfRec(last.h, last.r)["location_id"] = last.pre["location_id"]

\* The backend accepted the URL: the record is uploaded with the payload.
C28Witness ==
  /\ C28Case
  /\ last.got.status_code = 200
  /\ last.arg = "L1"
  /\ PdfRec(last.h, last.r) =
       [session_id |-> last.h, request_id |-> last.r, location_id |-> "L1",
        status |-> "uploaded", data |-> last.got.doc]

\* The request failed in transport: the record is left inited.
C28WitnessFailed ==
  /\ C28Case
  /\ last.got = TransportError
  /\ last.resp.code = "CONNECTION_ERROR"
  /\ PdfRec(last.h, last.r) =
       [session_id |-> last.h, request_id |-> last.r, location_id |-> last.arg,
        status |-> "inited"]

\* The import-status poll ran last, the backend reported completion, and the
\* product list polled is the one an upload record of the caller names.
C29Case ==
  /\ last.op = "check_upload_product_list_excel_data_status"
  /\ Len(last.calls) = 1
  /\ last.got.status_code = 200
  /\ last.got.doc["progress"] = "2/2"
  /\ \E r \in PlIds : Get(PlRec(last.h, r), "product_list_id") = last.arg

\* C29 as stated: after the polls in which the backend reports completion the
\* record of that request_id is in status finished.
C29Original ==
  C29Case =>
    \E r \in PlIds :
      /\ Get(PlRec(last.h, r), "product_list_id") = last.arg
      /\ PlRec(last.h, r)["status"] = "finished"

\* C29, amended: no product-list upload record ever has status finished; the
\* last status written is extracting, and a poll in which the backend reports
\* completion leaves the record extracting.
C29 ==
  /\ \A r \in PlIds :
       Present(pl[r]) =>
         pl[r]["status"] \in {"inited", "uploaded", "error", "validated",
                              "processing", "processed", "extracting"}
  /\ C29Case =>
       \A r \in PlIds :
         Get(PlRec(last.h, r), "product_list_id") = last.arg
         => PlRec(last.h, r)["status"] = "extracting"

\* The backend reported completion for the product list of an extracting
\* record, and the record is still extracting.
C29Witness ==
  /\ C29Case
  /\ \E r \in PlIds :
       /\ Get(PlRec(last.h, r), "product_list_id") = last.arg
       /\ PlRec(last.h, r)["status"] = "extracting"

\* C30 as stated: validate renews nothing, so a logged-in session record never
\* outlives the time to live counted from its last login.
C30Original ==
  \A h \in Handles :
    (Present(sess[h]) /\ TruthyB(sess[h], "logged_in"))
    => clock.now < clock.login[h] + TtlTicks

\* C30, amended: validate of a present, logged-in record returns the record
\* and writes it back to the cache, which restarts its time to live: after
\* the call the key expires a full REDIS_TTL from now, so the session expires
\* REDIS_TTL after its last login or its last validated tool call.
C30 ==
  /\ (/\ last.op = "validate_session"
      /\ Present(last.pre)
      /\ TruthyB(last.pre, "logged_in"))
     => /\ last.resp = last.pre
        /\ sess[last.h] = last.pre
        /\ last.writes = <<"sds_mcp">>
        /\ clock.expires[last.h] = clock.now + TtlTicks
  /\ \A h \in Handles : Present(sess[h]) => clock.now < clock.expires[h]

\* A logged-in session was validated at or after the time at which the time
\* to live counted from its login had run out.
C30Witness ==
  /\ last.op = "validate_session"
  /\ Present(last.pre)
  /\ TruthyB(last.pre, "logged_in")
  /\ clock.now >= clock.login[last.h] + TtlTicks
  /\ Present(sess[last.h])

\* ---------------------------------------------------------------------- C31
\* The projection of one row with both columns mapped (lowercased mapping).
C31Case ==
  /\ last.op = "extract"
  /\ DOMAIN last.pre = {"Product Name", "Supplier of SDS"}
  /\ last.arg = [product_name |-> "product name", supplier_of_sds |-> "supplier of sds"]

C31Target(k) == IF k = "Product Name" THEN "PRODUCT_NAME" ELSE "SUPPLIER_OF_SDS"

\* The cells of the extracted rows: every cell kept is under its uppercased
\* target field with its own value.
C31Kept(k) ==
  /\ Len(last.resp.rows) = 1
  /\ C31Target(k) \in DOMAIN last.resp.rows[1]
  /\ last.resp.rows[1][C31Target(k)] = last.pre[k]

C31Dropped(k) ==
  \A i \in 1..Len(last.resp.rows) : C31Target(k) \notin DOMAIN last.resp.rows[i]

\* C31: a cell of a mapped column is omitted from the extracted row if and
\* only if it is empty or NaN; every other cell value, the number 0 and the
\* boolean false included, appears under its uppercased target field name.
C31 ==
  C31Case =>
    \A k \in DOMAIN last.pre :
      IF last.pre[k] \in {"", NaN} THEN C31Dropped(k) ELSE C31Kept(k)

\* What the row loop does: a cell is omitted if and only if it is falsy
\* (empty, the number 0, False) or NaN.
C31Code ==
  C31Case =>
    \A k \in DOMAIN last.pre :
      IF last.pre[k] \in {"", NaN, IntZero, BoolFalse} THEN C31Dropped(k) ELSE C31Kept(k)

\* A row whose product name is the number 0: the cell is dropped although it
\* is neither empty nor NaN, the other cell is kept.
C31ZeroDropped ==
  /\ C31Case
  /\ last.pre["Product Name"] = IntZero
  /\ last.pre["Supplier of SDS"] = "Acme"
  /\ last.resp.rows = << [SUPPLIER_OF_SDS |-> "Acme"] >>

\* ---------------------------------------------------------------------- C32
\* process ran last with a valid session and sent the import submission,
\* which the backend answered with a status other than 200.
C32Rejected ==
  /\ last.op = "process_upload_product_list_excel_data"
  /\ Present(last.pre)
  /\ last.calls # NoCalls
  /\ last.got # TransportError
  /\ last.got.status_code # 200

\* process ran last with a valid session on a record in status processed.
C32Resumed ==
  /\ last.op = "process_upload_product_list_excel_data"
  /\ Present(last.pre)
  /\ last.pre["status"] = "processed"

\* C32: when the backend rejects the import submission the record stays in
\* status processed with the extracted_data that was submitted; a later
\* process call on that record re-submits the same extracted_data, without
\* parsing the spreadsheet again and whatever mapped_data it is given
\* (an empty one included).
C32 ==
  /\ C32Rejected =>
       /\ Present(PlRec(last.h, last.r))
       /\ PlRec(last.h, last.r)["status"] = "processed"
       /\ Has(PlRec(last.h, last.r), "extracted_data")
       /\ PlRec(last.h, last.r)["extracted_data"] = last.calls[1].extracted
       /\ PlRec(last.h, last.r) = last.sent
       /\ disk[last.pre["file_path"]] \notin {"absent"}
  /\ C32Resumed =>
       /\ Has(last.pre, "extracted_data")
       /\ Len(last.calls) = 1
       /\ last.calls[1].ep = "uploadProductList"
       /\ last.calls[1].extracted = last.pre["extracted_data"]
       /\ last.trail[1] = "request"
       /\ \A i \in 1..Len(last.trail) : last.trail[i] \notin {"processing", "processed"}

\* A record left processed by a rejected submission is resumed by a call
\* with an empty mapped_data, and the backend rejects the submission again:
\* the record is still processed.
C32Witness ==
  /\ C32Resumed
  /\ C32Rejected
  /\ DOMAIN last.arg = {}
  /\ ~Has(last.pre, "mapped_data")
  /\ last.calls[1].extracted = last.pre["extracted_data"]
  /\ PlRec(last.h, last.r) = last.pre

\* The resumed submission is accepted: the record goes to extracting.
C32WitnessAccepted ==
  /\ C32Resumed
  /\ DOMAIN last.arg = {}
  /\ last.got.status_code = 200
  /\ last.resp.code = "OK"
  /\ PlRec(last.h, last.r)["status"] = "extracting"

\* ---------------------------------------------------------------------- C33
\* A poll ran last, with a valid session, on an existing record.
C33Case ==
  /\ last.op = "check_upload_sds_pdf_status"
  /\ Present(last.pre)

\* C33 as stated: the response code of the poll is UPLOAD_FINISHED if and
\* only if the record's status after the call is finished.
C33Original ==
  C33Case =>
    (last.resp.code = "UPLOAD_FINISHED" <=> PdfRec(last.h, last.r)["status"] = "finished")

\* C33, amended: the response code of the poll is UPLOAD_FINISHED if and only
\* if the record's status BEFORE the call is finished; the poll that first
\* observes a progress of 100 or more writes finished and answers
\* UPLOAD_EXTRACTING with that progress, and a record it left finished is
\* answered UPLOAD_FINISHED by the next poll.
C33 ==
  /\ C33Case =>
       (last.resp.code = "UPLOAD_FINISHED" <=> last.pre["status"] = "finished")
  /\ (C16Case /\ last.got.doc["progress"] >= 100) =>
       /\ PdfRec(last.h, last.r)["status"] = "finished"
       /\ last.resp.code = "UPLOAD_EXTRACTING"
       /\ last.resp.data["progress"] = last.got.doc["progress"]
  /\ (C33Case /\ last.pre["status"] = "finished") =>
       /\ PdfRec(last.h, last.r) = last.pre
       /\ last.calls = NoCalls

\* The poll that first observes progress 100: the record is finished, the
\* answer says UPLOAD_EXTRACTING.
C33Witness ==
  /\ C16Case
  /\ last.pre["status"] \in {"uploaded", "extracting"}
  /\ last.got.doc["progress"] = 100
  /\ PdfRec(last.h, last.r)["status"] = "finished"
  /\ last.resp.code = "UPLOAD_EXTRACTING"

\* The poll after it: UPLOAD_FINISHED, where the poll before it said
\* UPLOAD_EXTRACTING for the same record.
C33WitnessLater ==
  /\ C33Case
  /\ last.pre["status"] = "finished"
  /\ last.resp.code = "UPLOAD_FINISHED"
  /\ Present(last.before)
  /\ last.before.resp.code = "UPLOAD_EXTRACTING"

\* ---------------------------------------------------------------------- C34
\* C34: every request sent to the import-submission endpoint for a (handle,
\* request_id) is preceded by a file upload and then a successful validate of
\* that record, with no reset and no new file upload between that validate
\* and the submission.
C34 ==
  [][(/\ last'.op = "process_upload_product_list_excel_data"
      /\ last'.calls # NoCalls)
     => /\ last'.calls[1].ep = "uploadProductList"
        /\ plHistory[last'.r].uploaded
        /\ plHistory[last'.r].validated
        /\ pl[last'.r]["session_id"] = last'.h]_vars

\* process has sent the import submission for a record that was uploaded and
\* then validated.
C34Witness ==
  /\ last.op = "process_upload_product_list_excel_data"
  /\ last.calls # NoCalls
  /\ last.calls[1].ep = "uploadProductList"
  /\ last.pre["status"] = "validated"
  /\ plHistory[last.r].uploaded

\* The submission is sent again from a record left processed by a rejection.
C34WitnessResumed ==
  /\ last.op = "process_upload_product_list_excel_data"
  /\ last.calls # NoCalls
  /\ last.pre["status"] = "processed"
  /\ plHistory[last.r].validated

\* ---------------------------------------------------------------------- C35
\* The operations that send backend requests on behalf of a session: the
\* tools and the upload-form endpoints.
C35Ops == ToolOps \cup {"upload_file", "upload_product_list"}

\* The requests of the step carry the api_key of the session record of the
\* handle, which is logged in when the step starts.
C35Authenticated(ops) ==
  (/\ last'.op \in ops
   /\ last'.calls # NoCalls)
  => /\ TruthyB(sess[last'.h], "logged_in")
     /\ TruthyS(sess[last'.h], "api_key")
     /\ \A i \in 1..Len(last'.calls) : last'.calls[i].api_key = sess[last'.h]["api_key"]

\* C35: every backend request made on behalf of a session, by a tool or by
\* the upload-form endpoints, carries the api_key of a session record that
\* has logged_in = true at the time of the request; no request is sent for a
\* handle whose record is unauthenticated or invalidated.
C35 == [][C35Authenticated(C35Ops)]_vars

\* What does hold: the requests of the tools carry the key of a logged-in
\* session record.
C35Tools == [][C35Authenticated(ToolOps)]_vars

\* POST /upload sent the file to the backend for a handle whose session
\* record is invalidated: the request carries no credential.
C35Invalidated ==
  /\ last.op = "upload_file"
  /\ last.calls # NoCalls
  /\ Present(sess[last.h])
  /\ ~TruthyB(sess[last.h], "logged_in")
  /\ TruthyB(sess[last.h], "login_error")
  /\ last.calls[1].api_key = Null

\* A tool sent a request with the key of its logged-in session.
C35ToolRequest ==
  /\ last.op = "check_upload_sds_pdf_status"
  /\ last.calls # NoCalls
  /\ last.got.status_code = 200
  /\ TruthyB(sess[last.h], "logged_in")
  /\ last.calls[1].api_key = sess[last.h]["api_key"]

\* ---------------------------------------------------------------------- C36
\* C36: a handle becomes authenticated only if it has a session record in the
\* cache at login time: POST /login for a handle that was never minted, or
\* whose record has expired, does not create an authenticated session record.
C36 ==
  [][(/\ last'.op = "login"
      /\ ~Present(sess[last'.h]))
     => ~TruthyB(sess'[last'.h], "logged_in")]_vars

\* What does hold: a handle becomes authenticated only by a login step that
\* the identity endpoint answered with 200.
C36ByLogin ==
  [][\A h \in AnyHandle :
       (~TruthyB(sess[h], "logged_in") /\ TruthyB(sess'[h], "logged_in"))
       => /\ last'.op = "login"
          /\ last'.h = h
          /\ last'.got.status_code = 200]_vars

\* POST /login with a valid key for a handle nobody minted: the handle has an
\* authenticated session record.
C36Created ==
  /\ last.op = "login"
  /\ last.h = Stranger
  /\ last.h \notin Minted
  /\ TruthyB(sess[Stranger], "logged_in")
  /\ sess[Stranger]["api_key"] = last.arg

\* ---------------------------------------------------------------------- C37
\* The location_id of every PDF upload record that exists before and after
\* the step is the same, for the steps of the operations in ops.
C37Kept(ops) ==
  \A r \in PdfIds :
    (/\ last'.op \in ops
     /\ Present(pdf[r])
     /\ Present(pdf'[r]))
    => Get(pdf'[r], "location_id") = Get(pdf[r], "location_id")

\* C37: the location_id of a PDF upload record never changes after it was
\* minted: after any upload-form submission, poll or reset the record's
\* location_id, and the location the file is sent to, is the one given when
\* the upload URL was minted.
C37 ==
  [][/\ C37Kept({"upload_file", "check_upload_sds_pdf_status"})
     /\ (/\ last'.op = "upload_file"
         /\ last'.calls # NoCalls)
        => last'.arg = Get(last'.pre, "location_id")]_vars

\* What does hold: polls and resets keep the location_id, and so does an
\* upload-form submission that carries the department_id of the minted URL.
C37Polls ==
  [][/\ C37Kept({"check_upload_sds_pdf_status"})
     /\ (/\ last'.op = "upload_file"
         /\ last'.arg = Get(last'.pre, "location_id"))
        => C37Kept({"upload_file"})]_vars

\* POST /upload with another department_id than the one of the minted URL:
\* the file went to that department and the record now names it.
C37Moved ==
  /\ last.op = "upload_file"
  /\ last.calls # NoCalls
  /\ last.got.status_code = 200
  /\ Present(last.pre)
  /\ last.pre["location_id"] = "L1"
  /\ last.arg # "L1"
  /\ PdfRec(last.h, last.r)["location_id"] = last.arg

\* ---------------------------------------------------------------------- C38
\* The session record of h is invalidated: the credential was rejected.
C38Invalidated(h) ==
  /\ Present(sess[h])
  /\ ~TruthyB(sess[h], "logged_in")
  /\ TruthyB(sess[h], "login_error")

\* C38: under any interleaving of the cache reads and writes of concurrent
\* tool calls for the same handle, once one call has invalidated the session
\* the record stays logged_in = false (no login happens here): the write-back
\* of validate_session in another call never restores the rejected credential.
C38 ==
  [][\A h \in AnyHandle : C38Invalidated(h) => ~TruthyB(sess'[h], "logged_in")]_vars

\* What does hold: the invalidated record is only brought back by the
\* write-back of a call that read the session before the invalidation and
\* was split by another call; a call that reads the invalidated record
\* returns AUTHENTICATION_ERROR and writes nothing.
C38OnlyStale ==
  [][\A h \in AnyHandle :
       (C38Invalidated(h) /\ TruthyB(sess'[h], "logged_in"))
       => \E t \in Tasks :
            /\ task[t].pc = "write_back"
            /\ task'[t].pc = "read_upload"
            /\ task[t].split
            /\ sess'[h] = task[t].info]_vars

\* One call was answered NOT_EXISTED_API_KEY and invalidated the session;
\* the other, which had read the session before, has written it back: the
\* record is logged in again with the rejected key.
C38Restored ==
  \E t, u \in Tasks :
    /\ task[t].pc = "done"
    /\ task[t].code = "API_KEY_INVALID"
    /\ task[u].pc = "read_upload"
    /\ task[u].split
    /\ TruthyB(sess[task[u].h], "logged_in")
    /\ sess[task[u].h]["api_key"] = "k1"
    /\ task[t].h = task[u].h

\* ---------------------------------------------------------------------- C39
\* The record of the poll t holds status finished.
C39Finished(rec) == Present(rec) /\ Get(rec, "status") = "finished"

\* Call t, a poll, takes the step.
C39PollStep(t) ==
  /\ task[t].op = "check_upload_sds_pdf_status"
  /\ Active(task[t])
  /\ task'[t].pc # task[t].pc

\* C39 as stated: with two concurrent pollers of the same upload, in every
\* interleaving of their cache reads, backend calls and cache writes, once
\* either has written status finished no later write of a poller sets the
\* status back to extracting or lowers the stored progress below 100.
C39Original ==
  [][\A t \in Tasks :
       (C39PollStep(t) /\ C39Finished(pdf[task[t].r]))
       => /\ C39Finished(pdf'[task[t].r])
          /\ pdf'[task[t].r]["progress"] >= 100]_vars

\* C39, amended: a poll that no step of another call splits (one active
\* poller at a time) never takes a finished record back: it finds the record
\* finished, answers UPLOAD_FINISHED and writes nothing.  With two pollers at
\* the same time the record is taken back from finished only by the write
\* of a poll that another call split and that read the record before it was
\* finished.
C39 ==
  [][\A t \in Tasks :
       (C39PollStep(t) /\ C39Finished(pdf[task[t].r]))
       => /\ (~task[t].split /\ ~task'[t].split) => pdf' = pdf
          /\ task[t].pc = "read_upload" =>
               (pdf' = pdf /\ task'[t].pc = "done" /\ task'[t].code = "UPLOAD_FINISHED")
          /\ ~C39Finished(pdf'[task[t].r]) =>
               /\ task[t].split
               /\ task[t].pc \in {"write", "reset"}
               /\ ~C39Finished(task[t].upload_info)]_vars

\* A poll that nothing split found the record finished and answered
\* UPLOAD_FINISHED; the record is still finished.
C39Witness ==
  \E t \in Tasks :
    /\ task[t].op = "check_upload_sds_pdf_status"
    /\ task[t].pc = "done"
    /\ task[t].code = "UPLOAD_FINISHED"
    /\ ~task[t].split
    /\ C39Finished(pdf[task[t].r])

\* No write of a poll takes a finished record to status extracting (this
\* does not hold: the write of a split poll that was answered 40 does).
C39NeverExtracting ==
  [][\A t \in Tasks :
       (C39PollStep(t) /\ C39Finished(pdf[task[t].r]))
       => Get(pdf'[task[t].r], "status") # "extracting"]_vars

\* Two polls at the same time have both written: the one that was split
\* wrote last, and the record is in status extracting with progress 40.
C39Regressed ==
  \E t, u \in Tasks :
    /\ t # u
    /\ task[t].op = "check_upload_sds_pdf_status"
    /\ task[u].op = "check_upload_sds_pdf_status"
    /\ task[t].pc = "done" /\ task[t].code = "UPLOAD_EXTRACTING"
    /\ task[u].pc = "done" /\ task[u].code = "UPLOAD_EXTRACTING"
    /\ task[u].split
    /\ Get(pdf[task[u].r], "status") = "extracting"
    /\ pdf[task[u].r]["progress"] = 40

\* ---------------------------------------------------------------------- C40
\* The upload record of the form submission u has a status from uploaded on.
C40Kept(rec) == Get(rec, "status") \in {"uploaded", "extracting", "finished"}

\* The step completes the later of a form submission u that the backend
\* accepted and a poll t of the same record, which were served at the same
\* time: the one that completes now was split by the other.
C40Completes(u, t) ==
  /\ task'[u].op = "upload_file"
  /\ task'[u].pc = "done"
  /\ task'[u].code = "Successfully uploaded"
  /\ task'[t].op = "check_upload_sds_pdf_status"
  /\ task'[t].pc = "done"
  /\ task'[t].h = task'[u].h
  /\ task'[t].r = task'[u].r
  /\ \/ Active(task[t]) /\ task'[t].split
     \/ Active(task[u]) /\ task'[u].split

\* C40: in every interleaving of an upload-form submission with a poll of the
\* same (handle, request_id), if the backend accepted the file then after
\* both have completed the record's status is uploaded (or later), not inited.
C40 ==
  [][\A u, t \in Tasks : C40Completes(u, t) => C40Kept(pdf'[task'[u].r])]_vars

\* What does hold: when no step of another call falls between the steps of
\* the poll (as on one event loop, where the form handler yields only at
\* `await file.read()` and the tool never yields), the accepted upload is kept.
C40Unsplit ==
  [][\A u, t \in Tasks :
       (C40Completes(u, t) /\ ~task'[t].split) => C40Kept(pdf'[task'[u].r])]_vars

\* The backend accepted the file, the poll read the record before the form
\* handler wrote it and reset it afterwards: the record is inited and the
\* poll has answered UPLOAD_ERROR.
C40Lost ==
  \E u, t \in Tasks :
    /\ task[u].op = "upload_file"
    /\ task[u].pc = "done"
    /\ task[u].code = "Successfully uploaded"
    /\ task[t].op = "check_upload_sds_pdf_status"
    /\ task[t].pc = "done"
    /\ task[t].split
    /\ task[t].code = "UPLOAD_ERROR"
    /\ Get(pdf[task[u].r], "status") = "inited"

\* The poll ran between the form handler's reads and its write and was not
\* split: the record is uploaded.
C40KeptUnsplit ==
  \E u, t \in Tasks :
    /\ task[u].op = "upload_file"
    /\ task[u].pc = "done"
    /\ task[u].code = "Successfully uploaded"
    /\ task[u].split
    /\ task[t].op = "check_upload_sds_pdf_status"
    /\ task[t].pc = "done"
    /\ ~task[t].split
    /\ task[t].code = "UPLOAD_ERROR"
    /\ Get(pdf[task[u].r], "status") = "uploaded"

====
